---- MODULE Spec2Model ----
(***************************************************************************)
(* Semantic category resolution of the Amazon-to-eBay lister: the vector   *)
(* category database (vector_category_db.py) and the semantic category     *)
(* selector (semantic_category_selector.py).                               *)
(*                                                                         *)
(* Strings are sequences of one-character strings, indexed as in Python    *)
(* through the Py* helpers (0-based offsets, half-open slices).            *)
(* Similarity scores are kept in thousandths (round(similarity, 3)).       *)
(***************************************************************************)
EXTENDS Integers, Sequences, FiniteSets, TLC

VARIABLES
    index_file,         \* vector_category_db/faiss_index.bin on disk
    metadata_file,      \* vector_category_db/category_metadata.pkl on disk
    db,                 \* "none" until a VectorCategoryDB object exists
    index,              \* VectorCategoryDB.index
    category_metadata,  \* VectorCategoryDB.category_metadata
    cache_file,         \* ebay_categories_cache.json on disk
    selector,           \* SemanticCategorySelector: "none", "ready", "aborted"
    llm_selector,       \* TRUE when SemanticCategorySelector.llm_selector is set
    op,                 \* name of the last operation called
    args,               \* its arguments and the answers of its collaborators
    search,             \* what the vector search gave to that operation
    ret,                \* what the operation returned or raised
    tin,                \* argument of the last _smart_truncate_title call
    tout,               \* its return value
    tdone,              \* TRUE once the call has returned
    vin,                \* argument of the last _smart_truncate call
    vout,               \* its return value
    vdone,              \* TRUE once that call has returned
    stage,              \* how far process_single_product has come
    product,            \* the product it was called with
    optimized,          \* brand and category_id that step 1 produced
    category_requirements, \* the requirements that step 2 produced
    requirements_cache, \* CategoryRequirementsCache.cache, in insertion order
    fill,               \* the completion given to, and the outcome of,
                        \* fill_category_requirements
    filled_aspects,     \* filled_aspects after step 3
    item_aspects,       \* the aspects of the inventory item
    product_result,     \* the dictionary process_single_product returned
    log,                \* the events it printed
    sent,               \* the listing requests it issued, with their outcomes
    phase,              \* per submitted product: where its task stands
    cat,                \* per product: the category id step 1 chose
    look,               \* per product: its requirements lookup
    fetches,            \* per category id: external requirement fetches started
    cache_hits,         \* CategoryRequirementsCache.hits
    cache_misses,       \* CategoryRequirementsCache.misses
    returned,           \* per product: what process_single_product returned
    results,            \* the results list of process_products
    batch,              \* "running" until process_products has returned
    remaining_calls,    \* RateLimitMonitor.remaining_calls
    limit,              \* RateLimitMonitor.limit
    reset_time,         \* RateLimitMonitor.reset_time
    lock,               \* the thread that holds RateLimitMonitor.lock, or 0
    pc,                 \* per worker thread: where it is in _make_request
    loc                 \* per worker thread: its local values

dbVars == <<index_file, metadata_file, db, index, category_metadata, cache_file>>
selVars == <<selector, llm_selector>>
callVars == <<op, args, search, ret>>
truncVars == <<tin, tout, tdone>>
aspectVars == <<vin, vout, vdone>>
flowVars == <<stage, product, optimized, category_requirements, requirements_cache,
              fill, filled_aspects, item_aspects, product_result, log, sent>>
batchVars == <<phase, cat, look, fetches, cache_hits, cache_misses, returned,
               results, batch>>
rateVars == <<remaining_calls, limit, reset_time, lock, pc, loc>>
sideVars == <<aspectVars, flowVars, batchVars, rateVars>>
vars == <<dbVars, selVars, callVars, truncVars, sideVars>>

(***************************************************************************)
(* Bounds of the model                                                     *)
(***************************************************************************)
MaxPad == 2             \* longest run of spaces between / before words
Near == 2               \* word lengths are taken within Near of the ceiling
MaxCats == 9            \* category ids of the taxonomy are 1..MaxCats
MaxWorkers == 2         \* threads of the pool (max_workers)
MaxProducts == 3        \* products of a batch

(***************************************************************************)
(* Program constants                                                       *)
(***************************************************************************)
TitleMax == 80          \* eBay title ceiling
FallbackKeep == 77      \* characters kept by the fallback truncation
TopK == 3               \* settings.category_candidates_top_k default
MinLevel == 2           \* shallowest indexed category level
MaxLevel == 4           \* deepest indexed category level
MaxAgeDays == 90        \* is_cache_valid: a cache this many days old is stale
DescQueryMax == 200     \* description characters used in the search query
DescMax == 300          \* description characters passed on by the selector
BulletMax == 5          \* bullet points passed on by the selector
DefaultCategory == 360  \* "Art Prints", the hard-wired default category
DefaultScore == 300     \* its similarity score 0.3
MinBrandLen == 2        \* a brand must be longer than this

(***************************************************************************)
(* Python string primitives                                                *)
(***************************************************************************)
Whitespace == {" "}

SetMax(S) == CHOOSE m \in S : \A x \in S : x <= m
SetMin(S) == CHOOSE m \in S : \A x \in S : m <= x

\* s[:n] for n >= 0
PyTake(s, n) == SubSeq(s, 1, IF n < Len(s) THEN n ELSE Len(s))

\* s.rfind(ch): 0-based offset of the last occurrence, -1 when there is none
PyRFind(s, ch) ==
    LET I == {i \in 1..Len(s) : s[i] = ch}
    IN  IF I = {} THEN -1 ELSE SetMax(I) - 1

\* s.strip()
PyStrip(s) ==
    LET I == {i \in 1..Len(s) : s[i] \notin Whitespace}
    IN  IF I = {} THEN <<>> ELSE SubSeq(s, SetMin(I), SetMax(I))

\* n copies of the character c
Rep(c, n) == [i \in 1..n |-> c]

(***************************************************************************)
(* SemanticCategorySelector._smart_truncate_title                          *)
(***************************************************************************)
_smart_truncate_title_cut81(title, max_length) ==
    IF Len(title) <= max_length
    THEN title
    ELSE LET truncated == PyTake(title, max_length + 1)
             last_space == PyRFind(truncated, " ")
         IN  IF last_space > 0
             THEN PyStrip(PyTake(title, last_space))
             ELSE PyStrip(PyTake(title, max_length))

_smart_truncate_title(title, max_length) ==
    IF Len(title) <= max_length
    THEN title
    ELSE LET truncated == PyTake(title, max_length)
             last_space == PyRFind(truncated, " ")
         IN  IF last_space > 0
             THEN PyStrip(PyTake(title, last_space))
             ELSE PyStrip(PyTake(title, max_length))

(***************************************************************************)
(* The category taxonomy held by CategoryCache.categories: a mapping from  *)
(* category id to its data, iterated in insertion order (ascending id).    *)
(***************************************************************************)
CategoryIds == 1..MaxCats
CatLevel(c) == 1 + (c % 5)
CatLeaf(c) == (c % 4) # 3
CatName(c) == <<"category", c>>
CatParent(c) == c \div 2     \* 0 stands for None, the parent of a top category

\* the tree the Taxonomy API serves now, as _parse_category_tree stores it
Taxonomy ==
    [c \in CategoryIds |-> [name |-> CatName(c), parent_id |-> CatParent(c),
                            level |-> CatLevel(c), leaf |-> CatLeaf(c)]]
EmptyTaxonomy ==
    [c \in {} |-> [name |-> CatName(c), parent_id |-> 0, level |-> 0, leaf |-> FALSE]]

\* an older tree, saved before the last Added categories existed
Added == 3              \* categories the tree gained after the old copy
StaleTaxonomy == [c \in 1..(MaxCats - Added) |-> Taxonomy[c]]

(***************************************************************************)
(* CategoryCache: the cache file holds the categories and how many days    *)
(* ago they were downloaded.                                               *)
(***************************************************************************)
NoCacheFile == [exists |-> FALSE, categories |-> EmptyTaxonomy, age |-> 0]
CacheFileOf(cats, age) == [exists |-> TRUE, categories |-> cats, age |-> age]

\* CategoryCache.is_cache_valid on a new object: it loads the file first
is_cache_valid(file) == file.exists /\ file.age < MaxAgeDays

\* CategoryCache.download_categories: categories is what the object holds
\* when it is called; download_ok is FALSE when the request fails or raises
download_categories(categories, file, download_ok) ==
    IF download_ok
    THEN [ok |-> TRUE, categories |-> Taxonomy, cache_file |-> CacheFileOf(Taxonomy, 0)]
    ELSE [ok |-> FALSE, categories |-> categories, cache_file |-> file]

\* CategoryCache().initialize(): its return value, the categories the
\* object holds afterwards and the cache file it leaves
CategoryCache_initialize(file, download_ok) ==
    LET loaded == IF file.exists THEN file.categories ELSE EmptyTaxonomy
    IN  IF is_cache_valid(file)
        THEN [ok |-> TRUE, categories |-> loaded, cache_file |-> file]
        ELSE download_categories(loaded, file, download_ok)

\* CategoryCache.get_category_path: the names from the top category down,
\* stopping at a parent the cache does not hold
RECURSIVE get_category_path(_, _)
get_category_path(cats, c) ==
    IF c \notin DOMAIN cats
    THEN <<>>
    ELSE get_category_path(cats, cats[c].parent_id) \o <<cats[c].name>>

\* the elements of a set of integers in ascending order
SortedSeq(S) ==
    [i \in 1..Cardinality(S) |-> CHOOSE x \in S : Cardinality({y \in S : y < x}) = i - 1]

\* every leaf, whatever its level
EligibleIds_leaves(cats) ==
    SortedSeq({c \in DOMAIN cats : cats[c].leaf})

\* the categories initialize_from_cache keeps: leaves of level 2 to 4
EligibleIds(cats) ==
    SortedSeq({c \in DOMAIN cats :
                 cats[c].leaf /\ ~(cats[c].level < MinLevel \/ cats[c].level > MaxLevel)})

\* the text embedded for category c: f"{name} - {path}"
SearchableText(cats, c) == <<cats[c].name, " - ", get_category_path(cats, c)>>

MetadataOf(cats, c) ==
    [id |-> c, name |-> cats[c].name, level |-> cats[c].level,
     path |-> get_category_path(cats, c), parent_id |-> cats[c].parent_id]

(***************************************************************************)
(* VectorCategoryDB.  A vector of the index is represented by the id of    *)
(* the category whose searchable text it embeds; a file by whether it      *)
(* exists, whether it can be read back, and its content.                   *)
(***************************************************************************)
\* the embedding model VectorCategoryDB.__init__ loads, and the one an
\* earlier release of the program built its index with
Model == "all-MiniLM-L6-v2"
OtherModel == "earlier-model"

\* an index is tagged with the model whose encode() made its vectors
NoIndex == [loaded |-> FALSE, vecs |-> <<>>, model |-> "none"]
AbsentFile == [exists |-> FALSE, readable |-> FALSE, data |-> <<>>]
CorruptFile == [exists |-> TRUE, readable |-> FALSE, data |-> <<>>]
FileOf(data) == [exists |-> TRUE, readable |-> TRUE, data |-> data]

\* faiss.write_index: the file holds the vectors and nothing about the
\* model that made them; made_by is a property of the vectors themselves
IndexFileOf(vecs, made_by) ==
    [exists |-> TRUE, readable |-> TRUE, data |-> vecs, made_by |-> made_by]

BuiltVecs == EligibleIds(Taxonomy)
BuiltMetadata == [i \in 1..Len(BuiltVecs) |-> MetadataOf(Taxonomy, BuiltVecs[i])]

\* VectorCategoryDB._load_index: the (index, category_metadata) it leaves
_load_index ==
    IF index_file.exists /\ metadata_file.exists
    THEN IF index_file.readable /\ metadata_file.readable
         THEN [index |-> [loaded |-> TRUE, vecs |-> index_file.data,
                          model |-> index_file.made_by],
               category_metadata |-> metadata_file.data]
         ELSE [index |-> NoIndex, category_metadata |-> <<>>]
    ELSE [index |-> NoIndex, category_metadata |-> <<>>]

\* SentenceTransformer.encode + inner product: the similarity (thousandths)
\* of a query text and the vector of category c, a fixed function of both
Similarity(query, c) == ((Len(query) + 1) * (7 * c + 3)) % 1000

\* a search that ranks by ascending inner product
FaissSearch_ascending(vecs, query, top_k) ==
    LET n == Len(vecs)
        Score(i) == Similarity(query, vecs[i])
        Better(j, i) == Score(j) < Score(i) \/ (Score(j) = Score(i) /\ j < i)
        Rank(i) == Cardinality({j \in 1..n : Better(j, i)}) + 1
    IN  [r \in 1..top_k |->
            IF r <= n
            THEN LET i == CHOOSE i \in 1..n : Rank(i) = r
                 IN  [pos |-> i - 1, score |-> Score(i)]
            ELSE [pos |-> -1, score |-> -1]]

\* faiss IndexFlatIP.search: the top_k positions (0-based) by descending
\* inner product, padded with -1 when the index holds fewer vectors
FaissSearch(vecs, query, top_k) ==
    LET n == Len(vecs)
        Score(i) == Similarity(query, vecs[i])
        Better(j, i) == Score(j) > Score(i) \/ (Score(j) = Score(i) /\ j < i)
        Rank(i) == Cardinality({j \in 1..n : Better(j, i)}) + 1
    IN  [r \in 1..top_k |->
            IF r <= n
            THEN LET i == CHOOSE i \in 1..n : Rank(i) = r
                 IN  [pos |-> i - 1, score |-> Score(i)]
            ELSE [pos |-> -1, score |-> -1]]

SearchRaised == [raised |-> TRUE, matches |-> <<>>]

\* VectorCategoryDB.search_category without its initialisation guard
search_category_unguarded(idx, meta, product_title, product_description, top_k, embed_ok) ==
    IF ~embed_ok
    THEN SearchRaised
    ELSE LET query == IF product_description # <<>>
                      THEN product_title \o <<" ">> \o PyTake(product_description, DescQueryMax)
                      ELSE product_title
             hits == FaissSearch(idx.vecs, query, top_k)
             valid == SelectSeq(hits, LAMBDA h : ~(h.pos < 0 \/ h.pos >= Len(meta)))
         IN  [raised |-> FALSE,
              matches |-> [i \in 1..Len(valid) |->
                  [category_id |-> meta[valid[i].pos + 1].id,
                   name |-> meta[valid[i].pos + 1].name,
                   similarity_score |-> valid[i].score]]]

\* VectorCategoryDB.search_category; embed_ok is FALSE when encode() raises
search_category(idx, meta, product_title, product_description, top_k, embed_ok) ==
    IF ~idx.loaded \/ Len(meta) = 0
    THEN SearchRaised
    ELSE IF ~embed_ok
    THEN SearchRaised
    ELSE LET query == IF product_description # <<>>
                      THEN product_title \o <<" ">> \o PyTake(product_description, DescQueryMax)
                      ELSE product_title
             hits == FaissSearch(idx.vecs, query, top_k)
             valid == SelectSeq(hits, LAMBDA h : ~(h.pos < 0 \/ h.pos >= Len(meta)))
         IN  [raised |-> FALSE,
              matches |-> [i \in 1..Len(valid) |->
                  [category_id |-> meta[valid[i].pos + 1].id,
                   name |-> meta[valid[i].pos + 1].name,
                   similarity_score |-> valid[i].score]]]

\* an early return that drops what the object holds
KeptIndex_reset(idx1, meta1) ==
    [raised |-> FALSE, built |-> FALSE, refreshed |-> FALSE,
     categories |-> EmptyTaxonomy, texts |-> <<>>,
     index |-> NoIndex, category_metadata |-> <<>>,
     index_file |-> index_file, metadata_file |-> metadata_file,
     cache_file |-> cache_file]

\* what initialize_from_cache leaves when it has an index already
KeptIndex(idx1, meta1) ==
    [raised |-> FALSE, built |-> FALSE, refreshed |-> FALSE,
     categories |-> EmptyTaxonomy, texts |-> <<>>,
     index |-> idx1, category_metadata |-> meta1,
     index_file |-> index_file, metadata_file |-> metadata_file,
     cache_file |-> cache_file]

\* VectorCategoryDB.initialize_from_cache: the categories are those a new
\* CategoryCache holds after initialize(), whose return value is not
\* looked at; an empty text list makes encode() or index.add() raise,
\* at_add telling which of the two
initialize_from_cache(idx, meta, force_rebuild, download_ok, at_add) ==
    LET idx1 == IF force_rebuild /\ idx.loaded THEN NoIndex ELSE idx
        meta1 == IF force_rebuild /\ idx.loaded THEN <<>> ELSE meta
        cache == CategoryCache_initialize(cache_file, download_ok)
        cats == cache.categories
        ids == EligibleIds(cats)
    IN  IF idx1.loaded /\ Len(meta1) > 0
        THEN KeptIndex(idx1, meta1)
        ELSE IF ids = <<>>
        THEN [raised |-> TRUE, built |-> FALSE, refreshed |-> cache.ok,
              categories |-> cats, texts |-> <<>>,
              index |-> IF at_add
                        THEN [loaded |-> TRUE, vecs |-> <<>>, model |-> Model]
                        ELSE idx1,
              category_metadata |-> meta1,
              index_file |-> index_file, metadata_file |-> metadata_file,
              cache_file |-> cache.cache_file]
        ELSE LET built == [i \in 1..Len(ids) |-> MetadataOf(cats, ids[i])]
             IN  [raised |-> FALSE, built |-> TRUE, refreshed |-> cache.ok,
                  categories |-> cats,
                  texts |-> [i \in 1..Len(ids) |-> SearchableText(cats, ids[i])],
                  index |-> [loaded |-> TRUE, vecs |-> ids, model |-> Model],
                  category_metadata |-> built,
                  index_file |-> IndexFileOf(ids, Model), metadata_file |-> FileOf(built),
                  cache_file |-> cache.cache_file]

(***************************************************************************)
(* More Python string primitives                                           *)
(***************************************************************************)
Uppers == <<"A", "B", "C", "D", "E", "F", "G", "H", "I", "J", "K", "L", "M", "N", "O", "P", "Q", "R", "S", "T", "U", "V", "W", "X", "Y", "Z">>
Lowers == <<"a", "b", "c", "d", "e", "f", "g", "h", "i", "j", "k", "l", "m", "n", "o", "p", "q", "r", "s", "t", "u", "v", "w", "x", "y", "z">>

NoneValue == -1         \* Python's None where the code holds an integer or None

PyIsUpper(c) == \E i \in 1..Len(Uppers) : Uppers[i] = c
PyLower(s) ==
    [i \in 1..Len(s) |->
        IF PyIsUpper(s[i])
        THEN Lowers[CHOOSE k \in 1..Len(Uppers) : Uppers[k] = s[i]]
        ELSE s[i]]

\* s.split()[0] for a string holding at least one non-whitespace character
PyFirstWord(s) ==
    LET a == SetMin({i \in 1..Len(s) : s[i] \notin Whitespace})
        after == {j \in a..Len(s) : s[j] \in Whitespace}
    IN  SubSeq(s, a, IF after = {} THEN Len(s) ELSE SetMin(after) - 1)

\* " ".join(items)
RECURSIVE PyJoin(_)
PyJoin(items) ==
    IF items = <<>> THEN <<>>
    ELSE IF Len(items) = 1 THEN items[1]
    ELSE items[1] \o <<" ">> \o PyJoin(Tail(items))

(***************************************************************************)
(* Words                                                                   *)
(***************************************************************************)
Generic == <<"G", "e", "n", "e", "r", "i", "c">>
Ellipsis == <<".", ".", ".">>
Sony == <<"S", "o", "n", "y">>
Acme == <<"A", "c", "m", "e">>
Bosch == <<"B", "o", "s", "c", "h">>
LG == <<"L", "G">>
TV == <<"T", "V">>
The == <<"T", "h", "e">>
Custom == <<"C", "u", "s", "t", "o", "m">>
Unknown == <<"U", "n", "k", "n", "o", "w", "n">>
NonString == <<"#number">>     \* a specification value that is a non-zero number
JsonNull == <<"#null">>        \* None, what json.loads makes of null

\* the generic tokens a brand must not be (compared in lower case)
RejectedBrands ==
    { <<"c", "u", "s", "t", "o", "m">>,
      <<"p", "e", "r", "s", "o", "n", "a", "l", "i", "z", "e", "d">>,
      <<"h", "a", "n", "d", "m", "a", "d", "e">>,
      <<"v", "i", "n", "t", "a", "g", "e">>,
      <<"u", "n", "i", "q", "u", "e">>,
      <<"n", "e", "w">>,
      <<"b", "r", "a", "n", "d">>,
      <<"t", "h", "e">>,
      <<"a">>,
      <<"a", "n">>,
      <<"w", "i", "t", "h">>,
      <<"f", "o", "r">>,
      <<"a", "n", "d">>,
      <<"n", "/", "a">>,
      <<"n", "o", "n", "e">>,
      <<"u", "n", "k", "n", "o", "w", "n">> }

AcceptableBrand(b) ==
    /\ b # <<>>
    /\ b # NonString
    /\ Len(b) > MinBrandLen
    /\ PyLower(b) \notin RejectedBrands

(***************************************************************************)
(* Product signals                                                         *)
(***************************************************************************)
NoSpecs == [present |-> FALSE, map |-> <<>>]
SpecsOf(m) == [present |-> TRUE, map |-> m]
NoBullets == [present |-> FALSE, items |-> <<>>]
BulletsOf(items) == [present |-> TRUE, items |-> items]

BrandKeys == <<"Brand", "brand", "Brand Name", "BrandName", "Manufacturer", "manufacturer">>

ProductTitles ==
    { Sony \o <<" ">> \o Rep("x", 3),
      The \o <<" ">> \o Rep("x", 3),
      TV \o <<" ">> \o Rep("x", 3),
      Rep("x", 3) \o <<" ">> \o Rep("y", 2),
      <<" ">>,
      <<>>,
      Sony \o <<" ">> \o Rep("x", TitleMax - 8) \o <<" ">> \o Rep("z", 3 + Near),
      Rep("x", TitleMax + Near) }

ProductExtras ==
    { [description |-> <<>>, bullet_points |-> NoBullets, specifications |-> NoSpecs],
      [description |-> <<>>, bullet_points |-> BulletsOf(<<>>),
       specifications |-> SpecsOf([k \in {} |-> <<>>])],
      [description |-> <<"d">>, bullet_points |-> BulletsOf(<< <<"b">> >>),
       specifications |-> SpecsOf([k \in {"Brand"} |-> Acme])],
      [description |-> <<"d">>, bullet_points |-> NoBullets,
       specifications |-> SpecsOf([k \in {"Brand", "Manufacturer"} |->
                                      IF k = "Brand" THEN LG ELSE Bosch])],
      [description |-> <<>>, bullet_points |-> NoBullets,
       specifications |-> SpecsOf([k \in {"Brand", "brand"} |->
                                      IF k = "Brand" THEN <<>> ELSE Unknown])],
      [description |-> <<>>, bullet_points |-> NoBullets,
       specifications |-> SpecsOf([k \in {"BrandName"} |-> NonString])] }

ProductSignals ==
    { [title |-> t, description |-> e.description, bullet_points |-> e.bullet_points,
       specifications |-> e.specifications] : t \in ProductTitles, e \in ProductExtras }

(***************************************************************************)
(* SemanticCategorySelector._extract_brand_simple                          *)
(***************************************************************************)
BrandRaised == [raised |-> TRUE, brand |-> <<>>]
BrandIs(b) == [raised |-> FALSE, brand |-> b]

\* the loop over the brand field names, from the i-th name on: found with a
\* brand, raised (len() of a number), or neither
RECURSIVE BrandFromSpecs(_, _)
BrandFromSpecs(m, i) ==
    IF i > Len(BrandKeys)
    THEN [found |-> FALSE, raised |-> FALSE, brand |-> <<>>]
    ELSE IF BrandKeys[i] \in DOMAIN m
    THEN LET brand == m[BrandKeys[i]]
         IN  IF brand = <<>> THEN BrandFromSpecs(m, i + 1)
             ELSE IF brand = NonString
             THEN [found |-> FALSE, raised |-> TRUE, brand |-> <<>>]
             ELSE IF Len(brand) > MinBrandLen
             THEN [found |-> TRUE, raised |-> FALSE, brand |-> brand]
             ELSE BrandFromSpecs(m, i + 1)
    ELSE BrandFromSpecs(m, i + 1)

\* the fallback on the first word of the title
BrandFromTitle(title) ==
    IF title = <<>>
    THEN BrandIs(Generic)
    ELSE IF \A i \in 1..Len(title) : title[i] \in Whitespace
    THEN BrandRaised                         \* title.split()[0]: IndexError
    ELSE LET first_word == PyFirstWord(title)
         IN  IF Len(first_word) > MinBrandLen /\ PyIsUpper(first_word[1])
             THEN BrandIs(first_word)
             ELSE BrandIs(Generic)

_extract_brand_simple(title, specifications) ==
    IF specifications.present /\ DOMAIN specifications.map # {}
    THEN LET s == BrandFromSpecs(specifications.map, 1)
         IN  IF s.raised THEN BrandRaised
             ELSE IF s.found THEN BrandIs(s.brand)
             ELSE BrandFromTitle(title)
    ELSE BrandFromTitle(title)

(***************************************************************************)
(* The completion service's answer.  The text of a response is a sequence  *)
(* of segments: the marker ```json, the marker ```, a JSON text, or other  *)
(* text; whitespace between segments is not represented.                   *)
(***************************************************************************)
NoValue == [obj |-> FALSE, fields |-> <<>>]
FenceJson == [k |-> "fence_json", v |-> NoValue]
Fence == [k |-> "fence", v |-> NoValue]
Prose == [k |-> "prose", v |-> NoValue]
JsonText(v) == [k |-> "json", v |-> v]

NotCalled == [kind |-> "not_called", segs |-> <<>>]
CallFailed == [kind |-> "error", segs |-> <<>>]      \* timeout, auth, rate limit
TextOf(segs) == [kind |-> "text", segs |-> segs]

\* dict.get(key, default)
PyGet(fields, key, default) == IF key \in DOMAIN fields THEN fields[key] ELSE default

\* json.loads: only a text that is exactly one JSON text decodes
JsonLoads(segs) ==
    IF Len(segs) = 1 /\ segs[1].k = "json"
    THEN [ok |-> TRUE, value |-> segs[1].v]
    ELSE [ok |-> FALSE, value |-> NoValue]

\* text[:-1]: a JSON text that lost its last character is no JSON text
DropLastChar(segs) ==
    IF segs = <<>> THEN <<>> ELSE [segs EXCEPT ![Len(segs)] = Prose]

\* the parsing of the response without the fenced-block recovery
ParseCompletion_no_recovery(segs) == JsonLoads(segs)

\* the parsing of the response text (json.loads, then the ```json recovery)
ParseCompletion(segs) ==
    LET direct == JsonLoads(segs)
    IN  IF direct.ok THEN direct
        ELSE IF \E i \in 1..Len(segs) : segs[i].k = "fence_json"
        THEN LET start == SetMin({i \in 1..Len(segs) : segs[i].k = "fence_json"})
                 closers == {j \in (start + 1)..Len(segs) :
                                segs[j].k \in {"fence", "fence_json"}}
                 inner == IF closers # {}
                          THEN SubSeq(segs, start + 1, SetMin(closers) - 1)
                          ELSE DropLastChar(SubSeq(segs, start + 1, Len(segs)))
             IN  JsonLoads(inner)
        ELSE direct

LlmRaised == [raised |-> TRUE, title |-> <<>>, brand |-> <<>>, category_id |-> 0]

\* SemanticCategorySelector._llm_optimize_title_brand_and_pick_category,
\* resp being what client.messages.create gave
_llm_optimize_title_brand_and_pick_category(title, resp, top_categories) ==
    IF resp.kind # "text"
    THEN LlmRaised
    ELSE LET p == ParseCompletion(resp.segs)
         IN  IF ~p.ok THEN LlmRaised
             ELSE IF ~p.value.obj THEN LlmRaised       \* no .get on a non-object
             ELSE LET result == p.value.fields
                      optimized_title == PyGet(result, "optimized_title", title)
                  IN  [raised |-> FALSE,
                       title |-> IF Len(optimized_title) > TitleMax
                                 THEN _smart_truncate_title(optimized_title, TitleMax)
                                 ELSE optimized_title,
                       brand |-> PyGet(result, "brand", Generic),
                       category_id |-> PyGet(result, "category_id",
                                             top_categories[1].category_id)]

(***************************************************************************)
(* SemanticCategorySelector.optimize_title_and_select_category             *)
(***************************************************************************)
DefaultMatch ==
    [category_id |-> DefaultCategory, name |-> <<"Art Prints">>,
     similarity_score |-> DefaultScore]

\* the title of the fallback paths, cut to 79 characters and the dots
FallbackTitle_keep79(product_title) ==
    IF Len(product_title) > TitleMax
    THEN PyTake(product_title, FallbackKeep + 2) \o Ellipsis
    ELSE product_title

\* the title of the fallback paths
FallbackTitle(product_title) ==
    IF Len(product_title) > TitleMax
    THEN PyTake(product_title, FallbackKeep) \o Ellipsis
    ELSE product_title

\* the lookup trusting the completion's id
PickCategory_trusting(top_matches, selected_category_id) ==
    LET hits == {i \in 1..Len(top_matches) :
                    top_matches[i].category_id = selected_category_id}
    IN  IF hits # {}
        THEN top_matches[SetMin(hits)]
        ELSE [category_id |-> selected_category_id, name |-> <<>>,
              similarity_score |-> 0]

\* the lookup of the completion's category among the candidates
PickCategory(top_matches, selected_category_id) ==
    LET hits == {i \in 1..Len(top_matches) :
                    top_matches[i].category_id = selected_category_id}
    IN  IF hits # {} /\ top_matches[SetMin(hits)].name # <<>>
        THEN top_matches[SetMin(hits)]
        ELSE top_matches[1]

Raised == [status |-> "raised", title |-> <<>>, brand |-> <<>>, category_id |-> 0,
           category_name |-> <<>>, confidence |-> 0]
Returned(title, brand, match) ==
    [status |-> "returned", title |-> title, brand |-> brand,
     category_id |-> match.category_id, category_name |-> match.name,
     confidence |-> match.similarity_score]

\* the query text handed to the vector search
EnhancedDescription(a) ==
    LET bullets == IF a.bullet_points.present /\ a.bullet_points.items # <<>>
                   THEN << PyJoin(SubSeq(a.bullet_points.items, 1,
                              IF Len(a.bullet_points.items) < BulletMax
                              THEN Len(a.bullet_points.items) ELSE BulletMax)) >>
                   ELSE <<>>
        desc == IF a.description # <<>>
                THEN << PyTake(a.description, DescMax) >>
                ELSE <<>>
    IN  PyStrip(PyJoin(bullets \o desc))

\* the whole call: what the search gave, the candidates used, the result
optimize_title_and_select_category(idx, meta, llm, a) ==
    LET found == search_category(idx, meta, a.title, EnhancedDescription(a),
                                 TopK, a.embed_ok)
        top_matches == IF found.raised \/ found.matches = <<>>
                       THEN << DefaultMatch >>
                       ELSE found.matches
        simple == LET b == _extract_brand_simple(a.title, a.specifications)
                  IN  IF b.raised THEN Raised
                      ELSE Returned(FallbackTitle(a.title), b.brand, top_matches[1])
        result ==
            IF a.use_llm_for_title /\ llm
            THEN LET r == _llm_optimize_title_brand_and_pick_category(
                              a.title, a.resp, top_matches)
                 IN  IF r.raised THEN simple
                     ELSE Returned(r.title, r.brand,
                                   PickCategory(top_matches, r.category_id))
            ELSE simple
    IN  [search |-> [raised |-> found.raised, matches |-> found.matches,
                     top_matches |-> top_matches],
         ret |-> result]

(***************************************************************************)
(* Titles: up to three words separated by runs of spaces, the word lengths *)
(* chosen so that word ends fall before, on and after the ceiling.         *)
(***************************************************************************)
MkTitle(lead, w1, g1, w2, g2, w3) ==
    Rep(" ", lead) \o Rep("x", w1) \o Rep(" ", g1) \o Rep("y", w2)
        \o Rep(" ", g2) \o Rep("z", w3)

FirstLens == {1, 40} \cup ((TitleMax - 2 - Near)..(TitleMax + 1))
SecondLens == (0..(Near + 1)) \cup {45}
ThirdLens == {0, 5}

TruncTitles ==
    { MkTitle(lead, w1, g1, w2, g2, w3) :
        lead \in 0..MaxPad, w1 \in FirstLens, g1 \in 0..MaxPad,
        w2 \in SecondLens, g2 \in 0..1, w3 \in ThirdLens }

(***************************************************************************)
(* SemanticCategorySelector.select_category                                *)
(***************************************************************************)
\* what LLMCategorySelector.select_category may answer: a category of the
\* taxonomy picked by the completion, or the hard-wired default
LlmCategoryAnswers ==
    { [category_id |-> c, name |-> CatName(c), similarity_score |-> 700] :
        c \in CategoryIds }
    \cup { DefaultMatch }

\* llm_answer is the answer of the LLM selector, used when the search fails
select_category(idx, meta, llm, a, llm_answer) ==
    LET enhanced == IF a.bullet_points.present /\ a.bullet_points.items # <<>>
                    THEN PyStrip(a.description \o <<" ">> \o
                            PyJoin(SubSeq(a.bullet_points.items, 1,
                                IF Len(a.bullet_points.items) < 3
                                THEN Len(a.bullet_points.items) ELSE 3)))
                    ELSE a.description
        found == search_category(idx, meta, a.title, enhanced, TopK + 2, a.embed_ok)
        best == IF found.raised \/ found.matches = <<>>
                THEN IF llm THEN llm_answer ELSE DefaultMatch
                ELSE found.matches[1]
    IN  [search |-> [raised |-> found.raised, matches |-> found.matches,
                     top_matches |-> found.matches],
         ret |-> [status |-> "returned", category_id |-> best.category_id,
                  category_name |-> best.name, confidence |-> best.similarity_score]]

(***************************************************************************)
(* Answers of the completion service                                       *)
(***************************************************************************)
Absent == [has |-> FALSE, v |-> <<>>]
NoCategory == [has |-> FALSE, v |-> 0]
Given(v) == [has |-> TRUE, v |-> v]

ObjectOf(t, b, c) ==
    LET D == (IF t.has THEN {"optimized_title"} ELSE {})
                 \cup (IF b.has THEN {"brand"} ELSE {})
                 \cup (IF c.has THEN {"category_id"} ELSE {})
    IN  [obj |-> TRUE,
         fields |-> [k \in D |-> CASE k = "optimized_title" -> t.v
                                   [] k = "brand" -> b.v
                                   [] OTHER -> c.v]]

CompletionTitles ==
    { Absent,
      Given(Acme \o <<" ">> \o Rep("x", 3)),
      Given(Acme \o <<" ">> \o Rep("x", TitleMax - 5) \o <<" ">> \o Rep("z", 3 + Near)) }
CompletionBrands == { Absent, Given(Acme), Given(Custom), Given(LG), Given(JsonNull) }
CompletionCategories == { NoCategory, Given(1), Given(MaxCats - 1), Given(MaxCats + 990) }

CompletionObjects ==
    { ObjectOf(t, b, c) :
        t \in CompletionTitles, b \in CompletionBrands, c \in CompletionCategories }

Bare(v) == << JsonText(v) >>
JsonFenced(v) == << FenceJson, JsonText(v), Fence >>
JsonFencedAfterProse(v) == << Prose, FenceJson, JsonText(v), Fence >>
PlainFenced(v) == << Fence, JsonText(v), Fence >>
JsonFencedUnclosed(v) == << FenceJson, JsonText(v) >>

Responses ==
    { CallFailed, TextOf(<< Prose >>), TextOf(<< FenceJson, Prose, Fence >>),
      TextOf(Bare(NoValue)) }
    \cup { TextOf(Bare(v)) : v \in CompletionObjects }
    \cup { TextOf(JsonFenced(v)) : v \in CompletionObjects }
    \cup { TextOf(JsonFencedAfterProse(v)) : v \in CompletionObjects }
    \cup { TextOf(PlainFenced(v)) : v \in CompletionObjects }
    \cup { TextOf(JsonFencedUnclosed(v)) : v \in CompletionObjects }

(***************************************************************************)
(* LLMCategorySelector._smart_truncate (aspect values)                     *)
(***************************************************************************)
AspectMax == 65         \* eBay ceiling for an aspect value

\* s[:n].rfind(d) for a two-character delimiter d = <<c, " ">>
PyRFindPair(s, c) ==
    LET I == {i \in 1..(Len(s) - 1) : s[i] = c /\ s[i + 1] = " "}
    IN  IF I = {} THEN -1 ELSE SetMax(I) - 1

\* the delimiters in the order in which the loop tries them
Delimiters == <<".", ":", ";", ",">>

\* the loop over the delimiters, from the i-th on: the offset at which the
\* first acceptable delimiter cuts, -1 when none is acceptable
RECURSIVE DelimiterCut(_, _, _)
DelimiterCut(window, half, i) ==
    IF i > Len(Delimiters) THEN -1
    ELSE LET pos == PyRFindPair(window, Delimiters[i])
         IN  IF pos > half THEN pos ELSE DelimiterCut(window, half, i + 1)

_smart_truncate_no_reserve(text, max_length) ==
    IF Len(text) <= max_length
    THEN text
    ELSE LET truncate_at == max_length
             window == PyTake(text, truncate_at)
             pos == DelimiterCut(window, max_length \div 2, 1)
         IN  IF pos >= 0
             THEN PyStrip(PyTake(text, pos))
             ELSE IF \E i \in 1..Len(window) : window[i] = " "
             THEN PyStrip(PyTake(text, PyRFind(window, " "))) \o Ellipsis
             ELSE PyStrip(window) \o Ellipsis

_smart_truncate(text, max_length) ==
    IF Len(text) <= max_length
    THEN text
    ELSE LET truncate_at == max_length - 3
             window == PyTake(text, truncate_at)
             pos == DelimiterCut(window, max_length \div 2, 1)
         IN  IF pos >= 0
             THEN PyStrip(PyTake(text, pos))
             ELSE IF \E i \in 1..Len(window) : window[i] = " "
             THEN PyStrip(PyTake(text, PyRFind(window, " "))) \o Ellipsis
             ELSE PyStrip(window) \o Ellipsis

(***************************************************************************)
(* Aspect values: up to three words joined by delimiters, the word lengths *)
(* chosen so that delimiters fall around the midpoint and around the end   *)
(* of the window that _smart_truncate looks at.                            *)
(***************************************************************************)
Joints == { <<>>, <<" ">>, <<".">>, <<".", " ">>, <<":", " ">>, <<";", " ">>, <<",", " ">> }

MkValue(w1, j1, w2, j2, w3) ==
    Rep("x", w1) \o j1 \o Rep("y", w2) \o j2 \o Rep("z", w3)

AspectHalf == AspectMax \div 2
AspectKeep == AspectMax - 3

ValueFirstLens ==
    {0, 1, 45} \cup ((AspectHalf - 1)..(AspectHalf + Near))
        \cup ((AspectMax - Near)..(AspectMax + Near))
ValueSecondLens ==
    {0, 10} \cup ((AspectKeep - 47 - Near)..(AspectKeep - 47 + Near))
        \cup ((AspectKeep - AspectHalf - 3 - Near)..(AspectKeep - AspectHalf - 3 + Near))
ValueThirdLens == {0, 4, 30}

AspectTexts ==
    { MkValue(w1, j1, w2, j2, w3) :
        w1 \in ValueFirstLens, j1 \in Joints, w2 \in ValueSecondLens,
        j2 \in Joints, w3 \in ValueThirdLens }

(***************************************************************************)
(* Aspect dictionaries.  A dictionary is the sequence of its items in      *)
(* insertion order; a value is a string, a list of strings and numbers, a  *)
(* number or null.                                                         *)
(***************************************************************************)
Str(s) == [t |-> "str", s |-> s, items |-> <<>>]
Num == [t |-> "num", s |-> <<>>, items |-> <<>>]
Null == [t |-> "null", s |-> <<>>, items |-> <<>>]
List(items) == [t |-> "list", s |-> <<>>, items |-> items]
Item(k, v) == [k |-> k, v |-> v]

Keys(d) == {d[i].k : i \in 1..Len(d)}
ValueAt(d, k) == d[CHOOSE i \in 1..Len(d) : d[i].k = k].v

\* d[k] = v on a dictionary: replaces in place or appends
DictSet(d, k, v) ==
    IF k \in Keys(d)
    THEN [i \in 1..Len(d) |-> IF d[i].k = k THEN Item(k, v) ELSE d[i]]
    ELSE Append(d, Item(k, v))

(***************************************************************************)
(* LLMCategorySelector._validate_and_truncate_aspects                      *)
(***************************************************************************)
TruncateValue_scalars_only(v) ==
    IF v.t = "str" /\ Len(v.s) > AspectMax
    THEN Str(_smart_truncate(v.s, AspectMax))
    ELSE v

\* one value of the dictionary: lists element by element, strings directly,
\* everything else untouched
TruncateValue(v) ==
    IF v.t = "list"
    THEN List([i \in 1..Len(v.items) |->
                 IF v.items[i].t = "str" /\ Len(v.items[i].s) > AspectMax
                 THEN Str(_smart_truncate(v.items[i].s, AspectMax))
                 ELSE v.items[i]])
    ELSE IF v.t = "str"
    THEN IF Len(v.s) > AspectMax THEN Str(_smart_truncate(v.s, AspectMax)) ELSE v
    ELSE v

_validate_and_truncate_aspects(aspects) ==
    [i \in 1..Len(aspects) |-> Item(aspects[i].k, TruncateValue(aspects[i].v))]

(***************************************************************************)
(* The text of the filler's completion, as a sequence of tokens: the       *)
(* markers ```json and ```, other text, braces and brackets, the members   *)
(* of an object (with the dictionary they denote), a member list that      *)
(* breaks off, and a JSON scalar.  Whitespace is not represented.          *)
(***************************************************************************)
Tok(k) == [k |-> k, d |-> <<>>]
Members(d) == [k |-> "members", d |-> d]
LBrace == Tok("{")
RBrace == Tok("}")
LBrack == Tok("[")
RBrack == Tok("]")
MdJson == Tok("md_json")
Md == Tok("md")
Text == Tok("text")
Scalar == Tok("scalar")
Partial == Tok("partial")

\* text[:-1]: a one-character token disappears, a longer one is damaged
DropLast(toks) ==
    IF toks = <<>> THEN <<>>
    ELSE LET last == toks[Len(toks)]
             front == SubSeq(toks, 1, Len(toks) - 1)
         IN  IF last.k \in {"{", "}", "[", "]"} THEN front
             ELSE IF last.k \in {"members", "scalar", "partial"} THEN Append(front, Partial)
             ELSE Append(front, Text)

\* the text between the first marker of the kinds ks and the next marker
Fenced(toks, ks) ==
    LET start == SetMin({i \in 1..Len(toks) : toks[i].k \in ks})
        closers == {j \in (start + 1)..Len(toks) : toks[j].k \in {"md", "md_json"}}
    IN  IF closers # {}
        THEN SubSeq(toks, start + 1, SetMin(closers) - 1)
        ELSE DropLast(SubSeq(toks, start + 1, Len(toks)))

\* the markdown code block handling
StripFences(toks) ==
    IF \E i \in 1..Len(toks) : toks[i].k = "md_json"
    THEN Fenced(toks, {"md_json"})
    ELSE IF \E i \in 1..Len(toks) : toks[i].k = "md"
    THEN Fenced(toks, {"md"})
    ELSE toks

\* the text from its first "{" on
FromFirstBrace(toks) ==
    IF toks # <<>> /\ toks[1].k = "{" THEN toks
    ELSE LET I == {i \in 1..Len(toks) : toks[i].k = "{"}
         IN  IF I = {} THEN toks ELSE SubSeq(toks, SetMin(I), Len(toks))

\* brace_count after the first n tokens
RECURSIVE BraceCount(_, _)
BraceCount(toks, n) ==
    IF n = 0 THEN 0
    ELSE BraceCount(toks, n - 1)
            + (IF toks[n].k = "{" THEN 1 ELSE IF toks[n].k = "}" THEN -1 ELSE 0)

\* the text up to the brace that closes the first one
ToClosingBrace(toks) ==
    IF toks # <<>> /\ toks[1].k = "{"
    THEN LET I == {i \in 1..Len(toks) : toks[i].k = "}" /\ BraceCount(toks, i) = 0}
         IN  IF I = {} THEN toks ELSE SubSeq(toks, 1, SetMin(I))
    ELSE toks

\* json.loads: "object" with its dictionary, "other" for a JSON value that
\* is no object, "error" for JSONDecodeError
IsObject(toks) ==
    \/ toks = <<LBrace, RBrace>>
    \/ Len(toks) = 3 /\ toks[1] = LBrace /\ toks[2].k = "members" /\ toks[3] = RBrace

FillLoads(toks) ==
    IF IsObject(toks)
    THEN [kind |-> "object", d |-> IF Len(toks) = 3 THEN toks[2].d ELSE <<>>]
    ELSE IF \/ toks = <<Scalar>>
            \/ toks = <<LBrack, RBrack>>
            \/ toks = <<LBrack, Scalar, RBrack>>
            \/ /\ Len(toks) > 2
               /\ toks[1] = LBrack
               /\ toks[Len(toks)] = RBrack
               /\ IsObject(SubSeq(toks, 2, Len(toks) - 1))
    THEN [kind |-> "other", d |-> <<>>]
    ELSE [kind |-> "error", d |-> <<>>]

(***************************************************************************)
(* LLMCategorySelector.fill_category_requirements                          *)
(***************************************************************************)
\* requirements of a category: the names of its required and of its
\* recommended aspects
Requirements(required, recommended) == [required |-> required, recommended |-> recommended]
EmptyRequirements == Requirements(<<>>, <<>>)

FillReturned(called, d) == [raised |-> FALSE, called |-> called, value |-> d]
FillRaised == [raised |-> TRUE, called |-> FALSE, value |-> <<>>]

\* what the try block makes of the completion resp
FillParse(resp) ==
    IF resp.kind # "text" THEN [kind |-> "failed", d |-> <<>>]
    ELSE FillLoads(ToClosingBrace(FromFirstBrace(StripFences(resp.segs))))

fill_category_requirements_decode_only(prompt_ok, requirements, include_recommended, resp) ==
    LET required == requirements.required
        recommended == IF include_recommended THEN requirements.recommended ELSE <<>>
        parsed == FillParse(resp)
    IN  IF required = <<>> /\ recommended = <<>> THEN FillReturned(FALSE, <<>>)
        ELSE IF ~prompt_ok THEN FillRaised
        ELSE IF parsed.kind = "object"
        THEN FillReturned(TRUE, _validate_and_truncate_aspects(parsed.d))
        ELSE IF parsed.kind = "error" THEN FillReturned(TRUE, <<>>)
        ELSE [raised |-> TRUE, called |-> TRUE, value |-> <<>>]

\* prompt_ok is FALSE when _build_requirements_filling_prompt raises (the
\* product's bulletPoints or description is null); resp is the completion
fill_category_requirements(prompt_ok, requirements, include_recommended, resp) ==
    LET required == requirements.required
        recommended == IF include_recommended THEN requirements.recommended ELSE <<>>
        parsed == FillParse(resp)
    IN  IF required = <<>> /\ recommended = <<>> THEN FillReturned(FALSE, <<>>)
        ELSE IF ~prompt_ok THEN FillRaised
        ELSE IF parsed.kind = "object"
        THEN FillReturned(TRUE, _validate_and_truncate_aspects(parsed.d))
        ELSE FillReturned(TRUE, <<>>)

(***************************************************************************)
(* Completions of the filler                                               *)
(***************************************************************************)
Red == <<"R", "e", "d">>
Used == <<"U", "s", "e", "d">>

FillObjects ==
    { << Item("Color", Str(Red)) >>,
      << Item("Color", Str(Rep("x", AspectMax))) >>,
      << Item("Color", Str(Rep("x", AspectMax + 1))),
         Item("Size", List(<< Str(Red),
                              Str(MkValue(45, <<",", " ">>, 30, <<>>, 0)) >>)) >>,
      << Item("Brand", Str(Sony)), Item("MPN", Str(<<"X">>)),
         Item("Condition", Str(Used)), Item("Color", Str(Red)) >>,
      << Item("Color", Null), Item("Size", Str(<<" ", " ">>)) >>,
      << Item("Features", Str(MkValue(40, <<" ">>, 40, <<".", " ">>, 30))),
         Item("Count", Num) >>,
      << Item("Brand", List(<< Str(Sony) >>)),
         Item("Size", List(<< Num, Str(Rep("y", AspectMax + Near)) >>)) >> }

ObjectText(d) == << LBrace, Members(d), RBrace >>
FencedObject(d) == << MdJson, LBrace, Members(d), RBrace, Md >>
PlainFencedObject(d) == << Md, LBrace, Members(d), RBrace, Md >>
ObjectInProse(d) == << Text, LBrace, Members(d), RBrace, Text >>
UnclosedFencedObject(d) == << MdJson, LBrace, Members(d), RBrace >>
ObjectInArray(d) == << LBrack, LBrace, Members(d), RBrace, RBrack >>

FillResponses ==
    { CallFailed, TextOf(<<>>), TextOf(<< Text >>), TextOf(<< Scalar >>),
      TextOf(<< LBrack, Scalar, RBrack >>), TextOf(<< LBrace, RBrace >>),
      TextOf(<< LBrace, Partial >>), TextOf(<< MdJson, Text, Md >>) }
    \cup { TextOf(ObjectText(d)) : d \in FillObjects }
    \cup { TextOf(FencedObject(d)) : d \in FillObjects }
    \cup { TextOf(PlainFencedObject(d)) : d \in FillObjects }
    \cup { TextOf(ObjectInProse(d)) : d \in FillObjects }
    \cup { TextOf(UnclosedFencedObject(d)) : d \in FillObjects }
    \cup { TextOf(ObjectInArray(d)) : d \in FillObjects }

RequirementSets ==
    { EmptyRequirements,
      Requirements(<<"Color">>, <<>>),
      Requirements(<<"Brand", "Color", "Size">>, <<"Features">>),
      Requirements(<<>>, <<"Features">>) }

(***************************************************************************)
(* ParallelListingProcessor._get_category_requirements and the building of *)
(* the item aspects in process_single_product                              *)
(***************************************************************************)
FetchRaised == [required |-> <<"#raised">>, recommended |-> <<>>]

CacheGet_always_miss(cache, category_id) ==
    [hit |-> FALSE, value |-> EmptyRequirements]

\* CategoryRequirementsCache.get: None on a miss
CacheGet(cache, category_id) ==
    IF category_id \in Keys(cache)
    THEN [hit |-> TRUE, value |-> ValueAt(cache, category_id)]
    ELSE [hit |-> FALSE, value |-> EmptyRequirements]

CacheSet_skip_empty(cache, category_id, reqs) ==
    IF reqs = EmptyRequirements THEN cache ELSE DictSet(cache, category_id, reqs)

\* CategoryRequirementsCache.set
CacheSet(cache, category_id, reqs) == DictSet(cache, category_id, reqs)

\* what a miss stores and returns: the fetched requirements, or the empty
\* requirements when the fetch raised
Fetched(fetched) == IF fetched = FetchRaised THEN EmptyRequirements ELSE fetched

\* fetched is what category_selector.get_category_requirements answers (or
\* FetchRaised) should the cache miss
_get_category_requirements(cache, category_id, fetched) ==
    LET cached == CacheGet(cache, category_id)
    IN  IF cached.hit
        THEN [cache |-> cache, value |-> cached.value, fetched |-> FALSE]
        ELSE [cache |-> CacheSet(cache, category_id, Fetched(fetched)),
              value |-> Fetched(fetched), fetched |-> TRUE]

ProtectedAspects == {"Brand", "MPN", "Condition"}
New == <<"N", "e", "w">>

\* "value is None or a blank string"
EmptyValue(v) == v.t = "null" \/ (v.t = "str" /\ PyStrip(v.s) = <<>>)

AddOne_unprotected(acc, aspect_name, aspect_value) ==
    IF EmptyValue(aspect_value) THEN acc
    ELSE DictSet(acc, aspect_name,
                 IF aspect_value.t = "list" THEN aspect_value ELSE List(<<aspect_value>>))

\* the body of the loop over filled_aspects.items()
AddOne(acc, aspect_name, aspect_value) ==
    IF aspect_name \in ProtectedAspects THEN acc
    ELSE IF EmptyValue(aspect_value) THEN acc
    ELSE DictSet(acc, aspect_name,
                 IF aspect_value.t = "list" THEN aspect_value ELSE List(<<aspect_value>>))

\* the loop, from the i-th item on
RECURSIVE AddFilled(_, _, _)
AddFilled(acc, filled, i) ==
    IF i > Len(filled) THEN acc
    ELSE AddFilled(AddOne(acc, filled[i].k, filled[i].v), filled, i + 1)

BuildAspects(brand, asin, filled) ==
    AddFilled(<< Item("Brand", List(<<Str(brand)>>)),
                 Item("MPN", List(<<Str(asin)>>)),
                 Item("Condition", List(<<Str(New)>>)) >>,
              filled, 1)

\* what the loop prints
SkipEvents(filled) ==
    (IF \E i \in 1..Len(filled) : filled[i].k \in ProtectedAspects
     THEN {"skip_protected"} ELSE {})
    \cup (IF \E i \in 1..Len(filled) :
                filled[i].k \notin ProtectedAspects /\ EmptyValue(filled[i].v)
          THEN {"skip_empty"} ELSE {})

(***************************************************************************)
(* State machine                                                           *)
(***************************************************************************)
NoArgs == <<>>
NoSearch == [raised |-> FALSE, matches |-> <<>>, top_matches |-> <<>>]
NoRet == [status |-> "none"]

TruncIdle ==
    /\ tin = <<>>
    /\ tout = <<>>
    /\ tdone = FALSE

AspectIdle ==
    /\ vin = <<>>
    /\ vout = <<>>
    /\ vdone = FALSE

NoProduct == [asin |-> <<>>, prompt_ok |-> TRUE]
NoOptimized == [brand |-> <<>>, category_id |-> 0]
NoFill == [resp |-> NotCalled, raised |-> FALSE, called |-> FALSE, value |-> <<>>]
NoResult == [status |-> "none", stage |-> "none"]

FlowIdle ==
    /\ stage = "idle"
    /\ product = NoProduct
    /\ optimized = NoOptimized
    /\ category_requirements = EmptyRequirements
    /\ requirements_cache = <<>>
    /\ fill = NoFill
    /\ filled_aspects = <<>>
    /\ item_aspects = <<>>
    /\ product_result = NoResult
    /\ log = {}
    /\ sent = <<>>

BatchIdle ==
    /\ phase = <<>>
    /\ cat = <<>>
    /\ look = <<>>
    /\ fetches = <<>>
    /\ cache_hits = 0
    /\ cache_misses = 0
    /\ returned = <<>>
    /\ results = <<>>
    /\ batch = "idle"

\* no RateLimitMonitor and no worker thread
RateIdle ==
    /\ remaining_calls = NoneValue
    /\ limit = NoneValue
    /\ reset_time = NoneValue
    /\ lock = 0
    /\ pc = <<>>
    /\ loc = <<>>

SideIdle == AspectIdle /\ FlowIdle /\ BatchIdle /\ RateIdle

\* no database, no selector and no call: the state the other specifications
\* keep this part of the program in
MainIdle ==
    /\ index_file = AbsentFile
    /\ metadata_file = AbsentFile
    /\ db = "none"
    /\ index = NoIndex
    /\ category_metadata = <<>>
    /\ cache_file = NoCacheFile
    /\ selector = "none"
    /\ llm_selector = FALSE
    /\ op = "none"
    /\ args = NoArgs
    /\ search = NoSearch
    /\ ret = NoRet

\* the cache file a run can find: none, one within the maximum age, or an
\* older one saved from an older tree
CacheFiles ==
    { NoCacheFile, CacheFileOf(Taxonomy, MaxAgeDays - 1),
      CacheFileOf(StaleTaxonomy, MaxAgeDays + 1) }

\* LLMCategorySelector.__init__: the cache file its CategoryCache found, the
\* value of initialize(), which is not looked at, and the categories it holds
NoLLMCache == [made |-> FALSE, file |-> NoCacheFile, refreshed |-> FALSE,
               categories |-> EmptyTaxonomy, cache_file |-> NoCacheFile]
LLMCache(file, download_ok) ==
    LET cache == CategoryCache_initialize(file, download_ok)
    IN  [made |-> TRUE, file |-> file, refreshed |-> cache.ok,
         categories |-> cache.categories, cache_file |-> cache.cache_file]

\* what a call that reaches initialize_from_cache records of it, and of
\* the LLMCategorySelector it made
BuildArgs(force_rebuild, download_ok, r, llm) ==
    [force_rebuild |-> force_rebuild, cache_file |-> cache_file,
     download_ok |-> download_ok, built |-> r.built, refreshed |-> r.refreshed,
     categories |-> r.categories, texts |-> r.texts, llm |-> llm]

Init ==
    /\ \E files \in { <<AbsentFile, AbsentFile>>,
                       <<IndexFileOf(BuiltVecs, Model), FileOf(BuiltMetadata)>>,
                       <<IndexFileOf(BuiltVecs, OtherModel), FileOf(BuiltMetadata)>>,
                       <<CorruptFile, FileOf(BuiltMetadata)>> } :
          /\ index_file = files[1]
          /\ metadata_file = files[2]
    /\ db = "none"
    /\ index = NoIndex
    /\ category_metadata = <<>>
    /\ cache_file \in CacheFiles
    /\ selector = "none"
    /\ llm_selector = FALSE
    /\ op = "none"
    /\ args = NoArgs
    /\ search = NoSearch
    /\ ret = NoRet
    /\ TruncIdle
    /\ SideIdle

\* VectorCategoryDB.__init__
NewVectorCategoryDB ==
    /\ op = "none"
    /\ db = "none"
    /\ db' = "alive"
    /\ index' = _load_index.index
    /\ category_metadata' = _load_index.category_metadata
    /\ op' = "new_db"
    /\ args' = NoArgs
    /\ search' = NoSearch
    /\ ret' = [status |-> "returned"]
    /\ UNCHANGED <<index_file, metadata_file, cache_file, selVars, truncVars, sideVars>>

\* a constructor that takes whatever _load_index left
NeedsBuild_never(loaded) == FALSE

\* SemanticCategorySelector.__init__: the test that sends it to
\* initialize_from_cache
NeedsBuild(loaded) == ~loaded.index.loaded \/ Len(loaded.category_metadata) = 0

\* SemanticCategorySelector.__init__: llm_ok is FALSE when LLMCategorySelector()
\* raises, llm_download_ok FALSE when its category download fails;
\* download_ok and at_add as for initialize_from_cache
NewSemanticCategorySelector ==
    /\ op = "none"
    /\ db = "none"
    /\ selector = "none"
    /\ \E use_llm_fallback \in BOOLEAN, llm_ok \in BOOLEAN,
          download_ok \in BOOLEAN, at_add \in BOOLEAN, llm_download_ok \in BOOLEAN :
          LET loaded == _load_index
              needs == NeedsBuild(loaded)
              built == IF needs
                       THEN initialize_from_cache(loaded.index, loaded.category_metadata,
                                                  FALSE, download_ok, at_add)
                       ELSE KeptIndex(loaded.index, loaded.category_metadata)
              llm == IF ~built.raised /\ use_llm_fallback /\ llm_ok
                     THEN LLMCache(built.cache_file, llm_download_ok)
                     ELSE NoLLMCache
          IN  /\ db' = "alive"
              /\ index' = IF needs THEN built.index ELSE loaded.index
              /\ category_metadata' =
                    IF needs THEN built.category_metadata ELSE loaded.category_metadata
              /\ index_file' = IF needs THEN built.index_file ELSE index_file
              /\ metadata_file' = IF needs THEN built.metadata_file ELSE metadata_file
              /\ cache_file' = IF llm.made THEN llm.cache_file ELSE built.cache_file
              /\ selector' = IF needs /\ built.raised THEN "aborted" ELSE "ready"
              /\ llm_selector' =
                    IF needs /\ built.raised THEN FALSE ELSE use_llm_fallback /\ llm_ok
              /\ op' = "new_selector"
              /\ args' = BuildArgs(FALSE, download_ok, built, llm)
              /\ search' = NoSearch
              /\ ret' = [status |-> IF needs /\ built.raised THEN "raised" ELSE "returned"]
    /\ UNCHANGED <<truncVars, sideVars>>

\* VectorCategoryDB.initialize_from_cache
InitializeFromCache ==
    /\ op = "none"
    /\ db = "alive"
    /\ selector # "aborted"
    /\ \E force_rebuild \in BOOLEAN, download_ok \in BOOLEAN, at_add \in BOOLEAN :
          LET r == initialize_from_cache(index, category_metadata, force_rebuild,
                                         download_ok, at_add)
          IN  /\ index' = r.index
              /\ category_metadata' = r.category_metadata
              /\ index_file' = r.index_file
              /\ metadata_file' = r.metadata_file
              /\ cache_file' = r.cache_file
              /\ op' = "initialize_from_cache"
              /\ args' = BuildArgs(force_rebuild, download_ok, r, NoLLMCache)
              /\ search' = NoSearch
              /\ ret' = [status |-> IF r.raised THEN "raised" ELSE "returned"]
    /\ UNCHANGED <<db, selVars, truncVars, sideVars>>

\* VectorCategoryDB.search_category
SearchCategory ==
    /\ op = "none"
    /\ db = "alive"
    /\ selector # "aborted"
    /\ \E t \in ProductTitles, d \in {<<>>, <<"d">>}, k \in {TopK, TopK + 2},
          embed_ok \in BOOLEAN :
          LET r == search_category(index, category_metadata, t, d, k, embed_ok)
          IN  /\ op' = "search_category"
              /\ args' = [title |-> t, description |-> d, top_k |-> k,
                          embed_ok |-> embed_ok]
              /\ search' = NoSearch
              /\ ret' = [status |-> IF r.raised THEN "raised" ELSE "returned",
                         matches |-> r.matches]
    /\ UNCHANGED <<dbVars, selVars, truncVars, sideVars>>

\* SemanticCategorySelector.optimize_title_and_select_category
OptimizeTitleAndSelectCategory ==
    /\ op = "none"
    /\ selector = "ready"
    /\ \E sig \in ProductSignals, use_llm_for_title \in BOOLEAN, embed_ok \in BOOLEAN :
        \E resp \in (IF use_llm_for_title /\ llm_selector THEN Responses ELSE {NotCalled}) :
          LET a == [title |-> sig.title, description |-> sig.description,
                    bullet_points |-> sig.bullet_points,
                    specifications |-> sig.specifications,
                    use_llm_for_title |-> use_llm_for_title,
                    embed_ok |-> embed_ok, resp |-> resp]
              r == optimize_title_and_select_category(index, category_metadata,
                                                      llm_selector, a)
          IN  /\ embed_ok \/ (index.loaded /\ Len(category_metadata) > 0)
                                         \* encode() is only reached then
              /\ op' = "optimize_title_and_select_category"
              /\ args' = a
              /\ search' = r.search
              /\ ret' = r.ret
    /\ UNCHANGED <<dbVars, selVars, truncVars, sideVars>>

\* SemanticCategorySelector.select_category
SelectCategory ==
    /\ op = "none"
    /\ selector = "ready"
    /\ \E t \in ProductTitles, e \in ProductExtras, embed_ok \in BOOLEAN,
          llm_answer \in LlmCategoryAnswers :
          LET a == [title |-> t, description |-> e.description,
                    bullet_points |-> e.bullet_points, embed_ok |-> embed_ok]
              r == select_category(index, category_metadata, llm_selector, a, llm_answer)
          IN  /\ embed_ok \/ (index.loaded /\ Len(category_metadata) > 0)
                                         \* encode() is only reached then
              /\ op' = "select_category"
              /\ args' = a
              /\ search' = r.search
              /\ ret' = r.ret
    /\ UNCHANGED <<dbVars, selVars, truncVars, sideVars>>

\* the caller takes the result of the last operation and goes on
\* a return that gives up the completion after a call in which it failed
Done_disabling_llm ==
    /\ op # "none"
    /\ op' = "none"
    /\ args' = NoArgs
    /\ search' = NoSearch
    /\ ret' = NoRet
    /\ llm_selector' =
          IF op = "optimize_title_and_select_category" /\ args.resp.kind = "error"
          THEN FALSE
          ELSE llm_selector
    /\ UNCHANGED <<dbVars, selector, truncVars, sideVars>>

Done ==
    /\ op # "none"
    /\ op' = "none"
    /\ args' = NoArgs
    /\ search' = NoSearch
    /\ ret' = NoRet
    /\ UNCHANGED <<dbVars, selVars, truncVars, sideVars>>

Next ==
    \/ Done
    \/ NewVectorCategoryDB
    \/ NewSemanticCategorySelector
    \/ InitializeFromCache
    \/ SearchCategory
    \/ SelectCategory
    \/ OptimizeTitleAndSelectCategory

Spec == Init /\ [][Next]_vars

(***************************************************************************)
(* Specification of the truncation function on its own                     *)
(***************************************************************************)
TruncInit ==
    /\ index_file = AbsentFile
    /\ metadata_file = AbsentFile
    /\ db = "none"
    /\ index = NoIndex
    /\ category_metadata = <<>>
    /\ cache_file = NoCacheFile
    /\ selector = "none"
    /\ llm_selector = FALSE
    /\ op = "none"
    /\ args = NoArgs
    /\ search = NoSearch
    /\ ret = NoRet
    /\ tin \in TruncTitles
    /\ tout = <<>>
    /\ tdone = FALSE
    /\ SideIdle

SmartTruncateTitle ==
    /\ ~tdone
    /\ tout' = _smart_truncate_title(tin, TitleMax)
    /\ tdone' = TRUE
    /\ UNCHANGED <<tin, dbVars, selVars, callVars, sideVars>>

TruncNext == SmartTruncateTitle

SpecTrunc == TruncInit /\ [][TruncNext]_vars

(***************************************************************************)
(* Specification of the aspect value truncation on its own                 *)
(***************************************************************************)
AspectInit ==
    /\ MainIdle
    /\ TruncIdle
    /\ vin \in AspectTexts
    /\ vout = <<>>
    /\ vdone = FALSE
    /\ FlowIdle
    /\ BatchIdle
    /\ RateIdle

SmartTruncate ==
    /\ ~vdone
    /\ vout' = _smart_truncate(vin, AspectMax)
    /\ vdone' = TRUE
    /\ UNCHANGED <<vin, dbVars, selVars, callVars, truncVars, flowVars, batchVars, rateVars>>

AspectNext == SmartTruncate

SpecAspect == AspectInit /\ [][AspectNext]_vars

(***************************************************************************)
(* Specification of process_single_product, one product, step by step      *)
(***************************************************************************)
Asin == <<"B", "0">>
Products == { [asin |-> Asin, prompt_ok |-> ok] : ok \in BOOLEAN }

FlowInit ==
    /\ MainIdle
    /\ TruncIdle
    /\ AspectIdle
    /\ BatchIdle
    /\ RateIdle
    /\ stage = "start"
    /\ product \in Products
    /\ optimized = NoOptimized
    /\ category_requirements = EmptyRequirements
    /\ requirements_cache \in { <<>>, << Item(1, Requirements(<<"Color">>, <<>>)) >> }
    /\ fill = NoFill
    /\ filled_aspects = <<>>
    /\ item_aspects = <<>>
    /\ product_result = NoResult
    /\ log = {}
    /\ sent = <<>>

Failed(at) == [status |-> "failed", stage |-> at]

\* a request of _make_request and how it ended: "success" for a status the
\* step accepts, "failure" for any other status, "raised" for an exception
Sent(request, outcome) == [request |-> request, outcome |-> outcome]

\* the offer lookup: an offer is found only in a 200 answer that lists one;
\* any other answer is taken as no offer
LookupOutcome(found) == IF found THEN "found" ELSE "none"

\* the offer request that follows the lookup
OfferRequest(found) == IF found THEN "offer_update" ELSE "offer_create"

\* what is printed or logged about the filling: by the caller when the call
\* raised, by fill_category_requirements when it caught an exception
FillEvents(r, resp) ==
    IF r.raised THEN {"could_not_fill"}
    ELSE IF ~r.called THEN {}
    ELSE IF FillParse(resp).kind = "error" THEN {"fill_parse_error"}
    ELSE IF FillParse(resp).kind = "object" THEN {}
    ELSE {"fill_failed"}

\* step 1: optimize_title_and_select_category returns or raises
\* the brands step 1 can receive: what the selector returns for a
\* completion that names a brand, names none, or gives null for it
Step1Brands ==
    { _llm_optimize_title_brand_and_pick_category(
          Acme, TextOf(Bare(ObjectOf(Absent, b, NoCategory))), << DefaultMatch >>).brand :
        b \in {Given(Acme), Absent, Given(JsonNull)} }

Step1Optimize ==
    /\ stage = "start"
    /\ \/ \E b \in Step1Brands, c \in {1, 2} :
             /\ optimized' = [brand |-> b, category_id |-> c]
             /\ stage' = "optimized"
             /\ UNCHANGED product_result
       \/ /\ product_result' = Failed("llm_optimization")
          /\ stage' = "done"
          /\ UNCHANGED optimized
    /\ UNCHANGED <<dbVars, selVars, callVars, truncVars, aspectVars, batchVars, rateVars,
                   product, category_requirements, requirements_cache, fill,
                   filled_aspects, item_aspects, log, sent>>

\* step 2: _get_category_requirements
Step2Requirements ==
    /\ stage = "optimized"
    /\ \E fetched \in RequirementSets \cup {FetchRaised} :
          LET r == _get_category_requirements(requirements_cache,
                                              optimized.category_id, fetched)
          IN  /\ category_requirements' = r.value
              /\ requirements_cache' = r.cache
    /\ stage' = "requirements"
    /\ UNCHANGED <<dbVars, selVars, callVars, truncVars, aspectVars, batchVars, rateVars,
                   product, optimized, fill, filled_aspects, item_aspects,
                   product_result, log, sent>>

\* step 3: fill_category_requirements, when there is something to fill
Step3Fill ==
    /\ stage = "requirements"
    /\ IF category_requirements.required # <<>> \/ category_requirements.recommended # <<>>
       THEN \E resp \in FillResponses :
               LET r == fill_category_requirements(product.prompt_ok,
                                                   category_requirements, TRUE, resp)
               IN  /\ fill' = [resp |-> IF r.called THEN resp ELSE NotCalled,
                               raised |-> r.raised, called |-> r.called,
                               value |-> r.value]
                   /\ filled_aspects' = IF r.raised THEN <<>> ELSE r.value
                   /\ log' = log \cup FillEvents(r, resp)
       ELSE UNCHANGED <<fill, filled_aspects, log>>
    /\ stage' = "filled"
    /\ UNCHANGED <<dbVars, selVars, callVars, truncVars, aspectVars, batchVars, rateVars,
                   product, optimized, category_requirements, requirements_cache,
                   item_aspects, product_result, sent>>

\* steps 4 and 5: the aspects and the inventory item; the PUT answers with
\* success, with an error status, or raises
Step5Inventory ==
    /\ stage = "filled"
    /\ item_aspects' = BuildAspects(optimized.brand, product.asin, filled_aspects)
    /\ log' = log \cup SkipEvents(filled_aspects)
    /\ \/ /\ sent' = Append(sent, Sent("inventory_item", "success"))
          /\ stage' = "inventory"
          /\ UNCHANGED product_result
       \/ /\ sent' = Append(sent, Sent("inventory_item", "failure"))
          /\ stage' = "done"
          /\ product_result' = Failed("inventory")
       \/ /\ sent' = Append(sent, Sent("inventory_item", "raised"))
          /\ stage' = "done"
          /\ product_result' = [status |-> "raised", stage |-> "inventory"]
    /\ UNCHANGED <<dbVars, selVars, callVars, truncVars, aspectVars, batchVars, rateVars,
                   product, optimized, category_requirements, requirements_cache,
                   fill, filled_aspects>>

\* an offer step that goes on to the publication whatever the offer
\* request answered
Step7Offer_ignoring_failure ==
    /\ stage = "inventory"
    /\ \E found \in BOOLEAN, answer \in {"success", "failure"} :
          /\ sent' = sent \o << Sent("offer_lookup", LookupOutcome(found)),
                                Sent(OfferRequest(found), answer) >>
          /\ stage' = "offer"
          /\ UNCHANGED product_result
    /\ UNCHANGED <<dbVars, selVars, callVars, truncVars, aspectVars, batchVars, rateVars,
                   product, optimized, category_requirements, requirements_cache,
                   fill, filled_aspects, item_aspects, log>>

\* steps 6 and 7: the lookup of an existing offer, then its update when one
\* was found and the creation of a new offer when none was
Step7Offer ==
    /\ stage = "inventory"
    /\ \/ /\ sent' = Append(sent, Sent("offer_lookup", "raised"))
          /\ stage' = "done"
          /\ product_result' = [status |-> "raised", stage |-> "offer"]
       \/ \E found \in BOOLEAN :
             LET looked == Append(sent, Sent("offer_lookup", LookupOutcome(found)))
             IN  \/ /\ sent' = Append(looked, Sent(OfferRequest(found), "success"))
                    /\ stage' = "offer"
                    /\ UNCHANGED product_result
                 \/ /\ sent' = Append(looked, Sent(OfferRequest(found), "failure"))
                    /\ stage' = "done"
                    /\ product_result' = Failed("offer")
                 \/ /\ sent' = Append(looked, Sent(OfferRequest(found), "raised"))
                    /\ stage' = "done"
                    /\ product_result' = [status |-> "raised", stage |-> "offer"]
    /\ UNCHANGED <<dbVars, selVars, callVars, truncVars, aspectVars, batchVars, rateVars,
                   product, optimized, category_requirements, requirements_cache,
                   fill, filled_aspects, item_aspects, log>>

\* step 8: the publication
Step8Publish ==
    /\ stage = "offer"
    /\ stage' = "done"
    /\ \/ /\ sent' = Append(sent, Sent("publish", "success"))
          /\ product_result' = [status |-> "success", stage |-> "publish"]
       \/ /\ sent' = Append(sent, Sent("publish", "failure"))
          /\ product_result' = Failed("publish")
       \/ /\ sent' = Append(sent, Sent("publish", "raised"))
          /\ product_result' = [status |-> "raised", stage |-> "publish"]
    /\ UNCHANGED <<dbVars, selVars, callVars, truncVars, aspectVars, batchVars, rateVars,
                   product, optimized, category_requirements, requirements_cache,
                   fill, filled_aspects, item_aspects, log>>

FlowNext ==
    \/ Step1Optimize
    \/ Step2Requirements
    \/ Step3Fill
    \/ Step5Inventory
    \/ Step7Offer
    \/ Step8Publish

SpecFlow == FlowInit /\ [][FlowNext]_vars

(***************************************************************************)
(* Specification of process_products: the products of a batch are run by   *)
(* the threads of a pool, the main thread collects what they return.  A    *)
(* task is split where it can be interleaved with the others: at the       *)
(* cache's get, at the external fetch, at the cache's set, and at the      *)
(* listing requests, which have no timeout and may never answer.           *)
(***************************************************************************)
BatchProducts == 1..MaxProducts
BatchCategories == {1, 2}

NoLookup == [hit |-> FALSE, calls |-> 0, value |-> EmptyRequirements, done |-> FALSE]

Running == {"step1", "get", "fetch", "set", "listing", "hung"}

BatchInit ==
    /\ MainIdle
    /\ TruncIdle
    /\ AspectIdle
    /\ FlowIdle
    /\ RateIdle
    /\ phase = [p \in BatchProducts |-> "queued"]
    /\ cat = [p \in BatchProducts |-> 0]
    /\ look = [p \in BatchProducts |-> NoLookup]
    /\ fetches = [c \in BatchCategories |-> 0]
    /\ cache_hits = 0
    /\ cache_misses = 0
    /\ returned = [p \in BatchProducts |-> NoResult]
    /\ results = <<>>
    /\ batch = "running"

restOfBatch == <<dbVars, selVars, callVars, truncVars, aspectVars, rateVars, stage, product,
                 optimized, category_requirements, fill, filled_aspects,
                 item_aspects, product_result, log, sent>>

\* a free thread of the pool takes the next submitted product
Start(p) ==
    /\ phase[p] = "queued"
    /\ \A q \in BatchProducts : q < p => phase[q] # "queued"
    /\ Cardinality({q \in BatchProducts : phase[q] \in Running}) < MaxWorkers
    /\ phase' = [phase EXCEPT ![p] = "step1"]
    /\ UNCHANGED <<cat, look, fetches, cache_hits, cache_misses, returned, results,
                   batch, requirements_cache, restOfBatch>>

\* step 1 of process_single_product: a category, or the failure record
BatchStep1(p) ==
    /\ phase[p] = "step1"
    /\ \/ \E c \in BatchCategories :
             /\ cat' = [cat EXCEPT ![p] = c]
             /\ phase' = [phase EXCEPT ![p] = "get"]
             /\ UNCHANGED returned
       \/ /\ returned' = [returned EXCEPT ![p] = Failed("llm_optimization")]
          /\ phase' = [phase EXCEPT ![p] = "returned"]
          /\ UNCHANGED cat
    /\ UNCHANGED <<look, fetches, cache_hits, cache_misses, results, batch,
                   requirements_cache, restOfBatch>>

\* _get_category_requirements, the cache's get (under its lock)
LookupGet(p) ==
    /\ phase[p] = "get"
    /\ LET cached == CacheGet(requirements_cache, cat[p])
       IN  IF cached.hit
           THEN /\ cache_hits' = cache_hits + 1
                /\ look' = [look EXCEPT ![p] = [hit |-> TRUE, calls |-> 0,
                                                value |-> cached.value, done |-> TRUE]]
                /\ phase' = [phase EXCEPT ![p] = "listing"]
                /\ UNCHANGED cache_misses
           ELSE /\ cache_misses' = cache_misses + 1
                /\ phase' = [phase EXCEPT ![p] = "fetch"]
                /\ UNCHANGED <<cache_hits, look>>
    /\ UNCHANGED <<cat, fetches, returned, results, batch, requirements_cache,
                   restOfBatch>>

\* _get_category_requirements, the external fetch (it has a timeout)
LookupFetch(p) ==
    /\ phase[p] = "fetch"
    /\ \E fetched \in {Requirements(<<"Color">>, <<>>), FetchRaised} :
          look' = [look EXCEPT ![p] = [hit |-> FALSE, calls |-> look[p].calls + 1,
                                       value |-> Fetched(fetched), done |-> FALSE]]
    /\ fetches' = [fetches EXCEPT ![cat[p]] = fetches[cat[p]] + 1]
    /\ phase' = [phase EXCEPT ![p] = "set"]
    /\ UNCHANGED <<cat, cache_hits, cache_misses, returned, results, batch,
                   requirements_cache, restOfBatch>>

\* _get_category_requirements, the cache's set (under its lock) and return
LookupSet(p) ==
    /\ phase[p] = "set"
    /\ requirements_cache' = CacheSet(requirements_cache, cat[p], look[p].value)
    /\ look' = [look EXCEPT ![p].done = TRUE]
    /\ phase' = [phase EXCEPT ![p] = "listing"]
    /\ UNCHANGED <<cat, fetches, cache_hits, cache_misses, returned, results, batch,
                   restOfBatch>>

\* steps 3 to 8: the task returns a record (the failure record of a later
\* stage is made like that of step 1), raises, or one of its requests never
\* answers; its local variables end with it
Listing(p) ==
    /\ phase[p] = "listing"
    /\ \/ \E r \in {[status |-> "success", stage |-> "publish"],
                    [status |-> "raised", stage |-> "exception"]} :
             /\ returned' = [returned EXCEPT ![p] = r]
             /\ phase' = [phase EXCEPT ![p] = "returned"]
       \/ /\ phase' = [phase EXCEPT ![p] = "hung"]
          /\ UNCHANGED returned
    /\ cat' = [cat EXCEPT ![p] = 0]
    /\ look' = [look EXCEPT ![p] = NoLookup]
    /\ UNCHANGED <<fetches, cache_hits, cache_misses, results, batch,
                   requirements_cache, restOfBatch>>

\* a loop that gives up the record of a future whose result() raises
Collect_dropping_raised(p) ==
    /\ batch = "running"
    /\ phase[p] = "returned"
    /\ results' = IF returned[p].status = "raised"
                  THEN results
                  ELSE Append(results, [sku |-> p, status |-> returned[p].status,
                                        stage |-> returned[p].stage])
    /\ phase' = [phase EXCEPT ![p] = "collected"]
    /\ returned' = [returned EXCEPT ![p] = NoResult]
    /\ UNCHANGED <<cat, look, fetches, cache_hits, cache_misses, batch,
                   requirements_cache, restOfBatch>>

\* the as_completed loop of the main thread takes a finished future
Collect(p) ==
    /\ batch = "running"
    /\ phase[p] = "returned"
    /\ results' = Append(results,
                         IF returned[p].status = "raised"
                         THEN [sku |-> p, status |-> "failed", stage |-> "exception"]
                         ELSE [sku |-> p, status |-> returned[p].status,
                               stage |-> returned[p].stage])
    /\ phase' = [phase EXCEPT ![p] = "collected"]
    /\ returned' = [returned EXCEPT ![p] = NoResult]
    /\ UNCHANGED <<cat, look, fetches, cache_hits, cache_misses, batch,
                   requirements_cache, restOfBatch>>

\* every future has been taken: the pool shuts down and the summary is made
Finish ==
    /\ batch = "running"
    /\ \A p \in BatchProducts : phase[p] = "collected"
    /\ batch' = "finished"
    /\ UNCHANGED <<phase, cat, look, fetches, cache_hits, cache_misses, returned,
                   results, requirements_cache, restOfBatch>>

BatchNext ==
    \/ \E p \in BatchProducts : Start(p)
    \/ \E p \in BatchProducts : BatchStep1(p)
    \/ \E p \in BatchProducts : LookupGet(p)
    \/ \E p \in BatchProducts : LookupFetch(p)
    \/ \E p \in BatchProducts : LookupSet(p)
    \/ \E p \in BatchProducts : Listing(p)
    \/ \E p \in BatchProducts : Collect(p)
    \/ Finish

SpecBatch == BatchInit /\ [][BatchNext]_vars

\* the threads of the pool and the main thread keep running
SpecBatchFair == SpecBatch /\ WF_vars(BatchNext)

(***************************************************************************)
(* RateLimitMonitor under the worker threads of _make_request.  Every      *)
(* read and every assignment of a field is a step of its own; a thread     *)
(* repeats: should_throttle, the request, update_from_headers.             *)
(***************************************************************************)
Workers == 1..MaxWorkers

DefaultWait == 2        \* seconds to wait when no reset time is known
MaxWait == 60           \* longest wait in seconds
LowShare == 5           \* throttle below limit * 0.2, a fifth of the limit

\* the rate-limit headers of a response: each of the three may be missing
RateHeaders ==
    { [remaining |-> r, limit |-> l, reset |-> s] :
        r \in {NoneValue, 1, 9}, l \in {NoneValue, 10}, s \in {NoneValue, 130} }
NoHeaders == [remaining |-> NoneValue, limit |-> NoneValue, reset |-> NoneValue]

\* what time.time() may give
Clock == {100, 150}

Tracker == [remaining |-> remaining_calls, limit |-> limit, reset |-> reset_time]
NoTracker == NoHeaders
NoDecision == [throttle |-> FALSE, wait |-> NoneValue]
NoLocals == [headers |-> NoHeaders, before |-> NoTracker, now |-> 0,
             decision |-> NoDecision]

\* RateLimitMonitor.should_throttle as one function of the three fields
should_throttle(k, now) ==
    IF k.remaining = NoneValue
    THEN [throttle |-> FALSE, wait |-> 0]
    ELSE IF k.limit \notin {NoneValue, 0} /\ LowShare * k.remaining < k.limit
    THEN IF k.reset \notin {NoneValue, 0}
         THEN LET wait_time == IF k.reset - now > 0 THEN k.reset - now ELSE 0
              IN  [throttle |-> TRUE,
                   wait |-> IF wait_time < MaxWait THEN wait_time ELSE MaxWait]
         ELSE [throttle |-> TRUE, wait |-> DefaultWait]
    ELSE [throttle |-> FALSE, wait |-> 0]

\* RateLimitMonitor.update_from_headers as one function: a header that is
\* missing leaves its field as it was
update_from_headers(k, h) ==
    [remaining |-> IF h.remaining # NoneValue THEN h.remaining ELSE k.remaining,
     limit |-> IF h.limit # NoneValue THEN h.limit ELSE k.limit,
     reset |-> IF h.reset # NoneValue THEN h.reset ELSE k.reset]

\* a lock that anyone can take at any time
Acquirable_always == TRUE

\* "with self.lock": the lock can be taken when no thread holds it
Acquirable == lock = 0

RateInit ==
    /\ MainIdle
    /\ TruncIdle
    /\ AspectIdle
    /\ FlowIdle
    /\ BatchIdle
    /\ remaining_calls = NoneValue
    /\ limit = NoneValue
    /\ reset_time = NoneValue
    /\ lock = 0
    /\ pc = [t \in Workers |-> "idle"]
    /\ loc = [t \in Workers |-> NoLocals]

restOfRate == <<dbVars, selVars, callVars, truncVars, aspectVars, flowVars, batchVars>>
fields == <<remaining_calls, limit, reset_time>>

\* should_throttle: with self.lock
ThrottleAcquire(t) ==
    /\ pc[t] = "idle"
    /\ Acquirable
    /\ lock' = t
    /\ pc' = [pc EXCEPT ![t] = "t_remaining"]
    /\ loc' = [loc EXCEPT ![t].before = Tracker]
    /\ UNCHANGED <<fields, restOfRate>>

\* if self.remaining_calls is None: return False, 0.0
ThrottleReadRemaining(t) ==
    /\ pc[t] = "t_remaining"
    /\ IF remaining_calls = NoneValue
       THEN /\ loc' = [loc EXCEPT ![t].decision = [throttle |-> FALSE, wait |-> 0]]
            /\ pc' = [pc EXCEPT ![t] = "t_release"]
       ELSE /\ pc' = [pc EXCEPT ![t] = "t_limit"]
            /\ UNCHANGED loc
    /\ UNCHANGED <<fields, lock, restOfRate>>

\* if self.limit and self.remaining_calls < (self.limit * 0.2)
ThrottleReadLimit(t) ==
    /\ pc[t] = "t_limit"
    /\ IF limit \notin {NoneValue, 0} /\ LowShare * remaining_calls < limit
       THEN /\ pc' = [pc EXCEPT ![t] = "t_reset"]
            /\ UNCHANGED loc
       ELSE /\ loc' = [loc EXCEPT ![t].decision = [throttle |-> FALSE, wait |-> 0]]
            /\ pc' = [pc EXCEPT ![t] = "t_release"]
    /\ UNCHANGED <<fields, lock, restOfRate>>

\* if self.reset_time: wait from reset_time and time.time(), else 2.0
ThrottleReadReset(t) ==
    /\ pc[t] = "t_reset"
    /\ \E now \in Clock :
          LET wait_time == IF reset_time - now > 0 THEN reset_time - now ELSE 0
          IN  loc' = [loc EXCEPT
                 ![t].now = now,
                 ![t].decision =
                     IF reset_time \notin {NoneValue, 0}
                     THEN [throttle |-> TRUE,
                           wait |-> IF wait_time < MaxWait THEN wait_time ELSE MaxWait]
                     ELSE [throttle |-> TRUE, wait |-> DefaultWait]]
    /\ pc' = [pc EXCEPT ![t] = "t_release"]
    /\ UNCHANGED <<fields, lock, restOfRate>>

\* the end of should_throttle's with block
ThrottleRelease(t) ==
    /\ pc[t] = "t_release"
    /\ lock' = 0
    /\ pc' = [pc EXCEPT ![t] = "request"]
    /\ UNCHANGED <<fields, loc, restOfRate>>

\* the sleep, if any, and the request: the response brings its headers
Request(t) ==
    /\ pc[t] = "request"
    /\ \E h \in RateHeaders :
          loc' = [loc EXCEPT ![t] = [NoLocals EXCEPT !.headers = h]]
    /\ pc' = [pc EXCEPT ![t] = "u_lock"]
    /\ UNCHANGED <<fields, lock, restOfRate>>

\* update_from_headers: with self.lock
UpdateAcquire(t) ==
    /\ pc[t] = "u_lock"
    /\ Acquirable
    /\ lock' = t
    /\ pc' = [pc EXCEPT ![t] = "u_remaining"]
    /\ loc' = [loc EXCEPT ![t].before = Tracker]
    /\ UNCHANGED <<fields, restOfRate>>

\* if remaining: self.remaining_calls = int(remaining)
UpdateRemaining(t) ==
    /\ pc[t] = "u_remaining"
    /\ remaining_calls' = IF loc[t].headers.remaining # NoneValue
                          THEN loc[t].headers.remaining
                          ELSE remaining_calls
    /\ pc' = [pc EXCEPT ![t] = "u_limit"]
    /\ UNCHANGED <<limit, reset_time, lock, loc, restOfRate>>

\* if limit: self.limit = int(limit)
UpdateLimit(t) ==
    /\ pc[t] = "u_limit"
    /\ limit' = IF loc[t].headers.limit # NoneValue THEN loc[t].headers.limit ELSE limit
    /\ pc' = [pc EXCEPT ![t] = "u_reset"]
    /\ UNCHANGED <<remaining_calls, reset_time, lock, loc, restOfRate>>

\* if reset_time: self.reset_time = int(reset_time)
UpdateReset(t) ==
    /\ pc[t] = "u_reset"
    /\ reset_time' = IF loc[t].headers.reset # NoneValue
                     THEN loc[t].headers.reset
                     ELSE reset_time
    /\ pc' = [pc EXCEPT ![t] = "u_release"]
    /\ UNCHANGED <<remaining_calls, limit, lock, loc, restOfRate>>

\* the end of update_from_headers' with block; _make_request returns
UpdateRelease(t) ==
    /\ pc[t] = "u_release"
    /\ lock' = 0
    /\ pc' = [pc EXCEPT ![t] = "idle"]
    /\ loc' = [loc EXCEPT ![t] = NoLocals]
    /\ UNCHANGED <<fields, restOfRate>>

RateNext ==
    \E t \in Workers :
        \/ ThrottleAcquire(t)
        \/ ThrottleReadRemaining(t)
        \/ ThrottleReadLimit(t)
        \/ ThrottleReadReset(t)
        \/ ThrottleRelease(t)
        \/ Request(t)
        \/ UpdateAcquire(t)
        \/ UpdateRemaining(t)
        \/ UpdateLimit(t)
        \/ UpdateReset(t)
        \/ UpdateRelease(t)

SpecRate == RateInit /\ [][RateNext]_vars

(***************************************************************************)
(* Properties of _smart_truncate_title                                     *)
(***************************************************************************)
\* 0-based offsets of the spaces among the first TitleMax characters of tin
SpacesInWindow == {p \in 0..(TitleMax - 1) : p < Len(tin) /\ tin[p + 1] = " "}

\* 1-based positions c <= lim at which a word of tin ends (a non-space
\* character followed by a space)
WordEnds(lim) ==
    {c \in 1..lim : c < Len(tin) /\ tin[c] \notin Whitespace /\ tin[c + 1] = " "}

\* C4 (as amended): for a title longer than 80 characters the result is the
\* title cut just before the last space found among its first 80 characters
\* (surrounding whitespace stripped) whenever that space is not the very
\* first character, so the cut never falls inside a word and a word ending
\* exactly at character 80 is dropped; the hard cut title[:80] is returned
\* only when the first 80 characters hold no space after offset 0.
C4_SmartTruncate ==
    (tdone /\ Len(tin) > TitleMax) =>
        /\ Len(tout) <= TitleMax
        /\ IF \E p \in SpacesInWindow : p > 0
           THEN LET p == SetMax(SpacesInWindow)
                IN  /\ tout = PyStrip(PyTake(tin, p))
                    /\ tin[p + 1] = " "
                    /\ \A q \in (p + 1)..(TitleMax - 1) : tin[q + 1] # " "
           ELSE tout = PyStrip(PyTake(tin, TitleMax))

\* C4 witness: a long title whose 80th character ends a word was truncated
\* at an earlier space
C4_Witness ==
    /\ tdone
    /\ Len(tin) > TitleMax
    /\ TitleMax \in WordEnds(TitleMax)
    /\ Len(tout) < TitleMax - 1
    /\ Len(tout) > 0

\* C4 (original statement): the result is the prefix ending at the last word
\* boundary at or before the ceiling, a word that ends exactly at character
\* 80 being kept whole; the hard cut only when there is no such boundary.
C4_Original ==
    (tdone /\ Len(tin) > TitleMax) =>
        IF WordEnds(TitleMax) # {}
        THEN tout = PyStrip(PyTake(tin, SetMax(WordEnds(TitleMax))))
        ELSE tout = PyStrip(PyTake(tin, TitleMax))

(***************************************************************************)
(* Properties of optimize_title_and_select_category                        *)
(***************************************************************************)
Optimized == op = "optimize_title_and_select_category"

\* the category ids of a candidate list
CandidateIds(ms) == {ms[i].category_id : i \in 1..Len(ms)}

\* the vector search of the last call gave at least one candidate
Retrieved == ~search.raised /\ search.matches # <<>>

\* the response texts whose JSON object the selector reads
Understood(v) == {Bare(v), JsonFenced(v), JsonFencedAfterProse(v)}

\* C1: on every return the category id is the id of one of the candidates
\* the vector search returned for that call.
C1_DomainContainment ==
    (Optimized /\ ret.status = "returned") =>
        ret.category_id \in CandidateIds(search.matches)

C3_TitleWithinCeiling ==
    (Optimized /\ ret.status = "returned") => Len(ret.title) <= TitleMax

\* C3 witness: a product title over the ceiling came back cut by the
\* fallback after the completion call failed
C3_Witness ==
    /\ Optimized
    /\ args.resp.kind = "error"
    /\ Len(args.title) > TitleMax
    /\ ret.status = "returned"
    /\ Len(ret.title) = TitleMax

\* C5: the returned brand is never a rejected generic token (whatever its
\* case), never empty and never shorter than 3 characters.
C5_BrandSentinel ==
    (Optimized /\ ret.status = "returned") => AcceptableBrand(ret.brand)

\* C6: when the completion call fails the call raises nothing and returns
\* the top candidate's id, name and score, the original title within 80
\* characters and a brand, whatever the product signal.
C6_DegradedResultComplete ==
    (Optimized /\ args.resp.kind = "error") =>
        /\ ret.status = "returned"
        /\ ret.category_id = search.top_matches[1].category_id
        /\ ret.category_name = search.top_matches[1].name
        /\ ret.confidence = search.top_matches[1].similarity_score
        /\ Len(ret.title) <= TitleMax
        /\ ret.brand # <<>>

\* the result of the same call had the completion answered resp
ResultWith(resp) ==
    optimize_title_and_select_category(index, category_metadata, llm_selector,
                                       [args EXCEPT !.resp = resp]).ret

\* the response texts from which the selector recovers no JSON object
Unrecovered ==
    { << Prose >>, << FenceJson, Prose, Fence >> }
    \cup { PlainFenced(v) : v \in CompletionObjects }
    \cup { JsonFencedUnclosed(v) : v \in CompletionObjects }

\* C7 (as amended): a response that is no JSON is re-parsed as the text
\* between the first ```json marker and the next ``` marker; a JSON object in
\* a closed ```json block gives the result the bare object gives; a response
\* still unparseable (a block fenced by plain ``` included) gives what a
\* failed completion call gives: the top candidate's category, the original
\* title cut to 80 characters and the brand of _extract_brand_simple.
C7_FenceRecovery ==
    (Optimized /\ args.resp.kind = "text") =>
        /\ \A v \in CompletionObjects :
              args.resp.segs \in {JsonFenced(v), JsonFencedAfterProse(v)} =>
                  ret = ResultWith(TextOf(Bare(v)))
        /\ args.resp.segs \in Unrecovered =>
              /\ ret = ResultWith(CallFailed)
              /\ ret.status = "returned" =>
                    /\ ret.category_id = search.top_matches[1].category_id
                    /\ Len(ret.title) <= TitleMax
                    /\ PyTake(ret.title, FallbackKeep) = PyTake(args.title, FallbackKeep)
                    /\ ret.brand = _extract_brand_simple(args.title, args.specifications).brand

\* C7 witness: a JSON object in a ```json block was read (its brand came
\* back) and differs from what the fallback would have given
C7_Witness ==
    /\ Optimized
    /\ args.resp.kind = "text"
    /\ \E v \in CompletionObjects :
          /\ args.resp.segs = JsonFenced(v)
          /\ "brand" \in DOMAIN v.fields
          /\ ret.brand = v.fields["brand"]
    /\ ret.status = "returned"
    /\ ret # ResultWith(CallFailed)

\* C7 (original statement): valid JSON inside a fenced block gives the
\* result of the same JSON unfenced; a still unparseable response gives the
\* top candidate's category, the truncated original title and "Generic".
C7_Original ==
    (Optimized /\ args.resp.kind = "text") =>
        /\ \A v \in CompletionObjects :
              args.resp.segs \in {JsonFenced(v), PlainFenced(v)} =>
                  ret = ResultWith(TextOf(Bare(v)))
        /\ args.resp.segs \in { << Prose >>, << FenceJson, Prose, Fence >> } =>
              /\ ret.status = "returned"
              /\ ret.category_id = search.top_matches[1].category_id
              /\ Len(ret.title) <= TitleMax
              /\ ret.brand = Generic

\* C8: the returned confidence is the similarity score the vector search
\* gave to the candidate whose id is returned.
C8_ConfidenceIsSimilarity ==
    (Optimized /\ ret.status = "returned") =>
        \E i \in 1..Len(search.matches) :
            /\ search.matches[i].category_id = ret.category_id
            /\ search.matches[i].similarity_score = ret.confidence

\* C9: when retrieval fails or returns no candidate the call reports a
\* failure; it never goes on with a made-up candidate category.
C9_RetrievalFailureReported ==
    ((Optimized \/ op = "select_category") /\ ~Retrieved) => ret.status = "raised"

(***************************************************************************)
(* Properties of VectorCategoryDB.search_category                          *)
(***************************************************************************)
\* C10: search_category called while the index is absent or the metadata
\* list is empty raises, returns no candidate list and leaves the index and
\* the metadata as they were.
C10_SearchUninitialised ==
    [][ ( /\ op = "none"
          /\ op' = "search_category"
          /\ ~index.loaded \/ Len(category_metadata) = 0 )
        => ( /\ ret'.status = "raised"
             /\ ret'.matches = <<>>
             /\ index' = index
             /\ category_metadata' = category_metadata ) ]_vars

\* C10 witness: a search on a database without index has raised
C10_Witness ==
    /\ op = "search_category"
    /\ ~index.loaded
    /\ args.embed_ok
    /\ ret.status = "raised"

(***************************************************************************)
(* Properties of _smart_truncate                                           *)
(***************************************************************************)
\* the characters of vin that _smart_truncate looks at
ValueWindow == PyTake(vin, AspectMax - 3)

\* 0-based offsets, beyond the midpoint, of the delimiter c followed by a
\* space, both inside the window
DelimiterOffsets(c) ==
    {p \in (AspectMax \div 2 + 1)..(AspectMax - 5) :
        p + 2 <= Len(ValueWindow) /\ vin[p + 1] = c /\ vin[p + 2] = " "}

\* the delimiter kinds that occur beyond the midpoint of the window
UsableKinds == {i \in 1..Len(Delimiters) : DelimiterOffsets(Delimiters[i]) # {}}

\* 0-based offsets of the spaces inside the window
ValueSpaces == {p \in 0..(AspectMax - 4) : p < Len(vin) /\ vin[p + 1] = " "}

\* the result is the plain cut of the window and stops between two
\* characters of one word
CutInsideWord ==
    /\ vout = PyStrip(ValueWindow) \o Ellipsis
    /\ Len(vin) > AspectMax - 3
    /\ vin[AspectMax - 3] \notin Whitespace
    /\ vin[AspectMax - 2] \notin Whitespace

\* C12 (as amended): a value of at most 65 characters is returned unchanged;
\* for a longer one only the first 62 characters are looked at: (1) of the
\* delimiters ". ", ": ", "; ", ", " taken in this order, the first kind that
\* occurs beyond offset 32 decides, and the value is cut just before the last
\* occurrence of that kind, without ellipsis, even when a delimiter of a later
\* kind lies nearer to the ceiling; (2) otherwise, when the 62 characters
\* hold a space, the value is cut before the last such space and "..." is
\* appended; (3) otherwise the 62 characters are kept and "..." is appended,
\* which cuts inside a word whenever character 63 is not a space, also when
\* the value has a space further on.
\* The result never exceeds 65 characters.
C12_SmartTruncate ==
    vdone =>
        IF Len(vin) <= AspectMax
        THEN vout = vin
        ELSE /\ Len(vout) <= AspectMax
             /\ IF UsableKinds # {}
                THEN LET kind == SetMin(UsableKinds)
                         p == SetMax(DelimiterOffsets(Delimiters[kind]))
                     IN  vout = PyStrip(PyTake(vin, p))
                ELSE IF ValueSpaces # {}
                THEN vout = PyStrip(PyTake(vin, SetMax(ValueSpaces))) \o Ellipsis
                ELSE /\ vout = PyStrip(ValueWindow) \o Ellipsis
                     /\ CutInsideWord <=> vin[AspectMax - 2] \notin Whitespace

\* C12 witness: a long value holding ". " beyond the midpoint and ", " nearer
\* to the ceiling was cut at the ". "
C12_Witness ==
    /\ vdone
    /\ Len(vin) > AspectMax
    /\ DelimiterOffsets(".") # {}
    /\ DelimiterOffsets(",") # {}
    /\ SetMax(DelimiterOffsets(".")) < SetMax(DelimiterOffsets(","))
    /\ vout = PyStrip(PyTake(vin, SetMax(DelimiterOffsets("."))))

\* C12 (original statement): the cut is at the delimiter nearest to the
\* ceiling among those beyond the midpoint, otherwise at the nearest word
\* boundary with an ellipsis, otherwise a hard cut with an ellipsis; the cut
\* falls inside a word only when the value has no word boundary at all.
C12_Original ==
    vdone =>
        IF Len(vin) <= AspectMax
        THEN vout = vin
        ELSE /\ IF UsableKinds # {}
                THEN LET p == SetMax(UNION {DelimiterOffsets(Delimiters[i]) : i \in UsableKinds})
                     IN  vout = PyStrip(PyTake(vin, p))
                ELSE IF ValueSpaces # {}
                THEN vout = PyStrip(PyTake(vin, SetMax(ValueSpaces))) \o Ellipsis
                ELSE vout = PyStrip(ValueWindow) \o Ellipsis
             /\ CutInsideWord => \A i \in 1..Len(vin) : vin[i] # " "

(***************************************************************************)
(* Properties of fill_category_requirements and of the item aspects        *)
(***************************************************************************)
\* the strings of a value: itself, or its string elements
StringsOf(v) ==
    IF v.t = "str" THEN {v.s}
    ELSE IF v.t = "list" THEN {v.items[i].s : i \in {j \in 1..Len(v.items) : v.items[j].t = "str"}}
    ELSE {}

\* the dictionary the completion denotes, when the filler extracted one
FilledFrom(resp) == FillParse(resp).d

\* C11: in the dictionary returned by fill_category_requirements every
\* string value, scalar or element of a list, has at most 65 characters.
C11_AspectValuesWithinCeiling ==
    \A i \in 1..Len(fill.value) :
        \A s \in StringsOf(fill.value[i].v) : Len(s) <= AspectMax

\* C11 witness: the completion gave a list holding a string of more than 65
\* characters and the returned dictionary holds the list with it shortened
C11_Witness ==
    /\ fill.called
    /\ ~fill.raised
    /\ \E i \in 1..Len(fill.value) :
          /\ fill.value[i].v.t = "list"
          /\ FilledFrom(fill.resp)[i].v.t = "list"
          /\ \E j \in 1..Len(fill.value[i].v.items) :
                /\ Len(FilledFrom(fill.resp)[i].v.items[j].s) > AspectMax
                /\ Len(fill.value[i].v.items[j].s) <= AspectMax
                /\ Len(fill.value[i].v.items[j].s) > 0

\* the inventory item of the product has been built
ItemBuilt == item_aspects # <<>>

\* C13: in the inventory item the aspects Brand, MPN and Condition hold the
\* caller's values [brand], [asin], ["New"], whatever the filler returned.
C13_ProtectedAspects ==
    ItemBuilt =>
        /\ ProtectedAspects \subseteq Keys(item_aspects)
        /\ ValueAt(item_aspects, "Brand") = List(<<Str(optimized.brand)>>)
        /\ ValueAt(item_aspects, "MPN") = List(<<Str(product.asin)>>)
        /\ ValueAt(item_aspects, "Condition") = List(<<Str(New)>>)
        /\ Cardinality({i \in 1..Len(item_aspects) :
                           item_aspects[i].k \in ProtectedAspects}) = 3

\* C13 witness: the filler returned values for Brand, MPN and Condition that
\* differ from the caller's, and the item was built
C13_Witness ==
    /\ ItemBuilt
    /\ ProtectedAspects \subseteq Keys(filled_aspects)
    /\ ValueAt(filled_aspects, "Brand") = Str(Sony)
    /\ optimized.brand = Acme
    /\ "Color" \in Keys(item_aspects)

\* the completion call failed, or no JSON object is found in its text by
\* taking the inside of a markdown block, skipping to the first "{" and
\* stopping at the "}" that closes it
NoObjectFound(resp) == FillParse(resp).kind # "object"

\* the completion call failed, or its text (the inside of a markdown block,
\* if it has one) is no JSON text or a JSON value that is no object
Malformed(resp) ==
    resp.kind # "text" \/ FillLoads(StripFences(resp.segs)).kind # "object"

\* fill_category_requirements gave nothing, raised nothing, and the product
\* went on to the listing steps with the caller's three aspects only
EmptyAndContinued ==
    /\ ~fill.raised
    /\ fill.value = <<>>
    /\ filled_aspects = <<>>
    /\ stage \in {"filled", "inventory", "offer", "done"}
    /\ product_result.stage \in {"none", "inventory", "offer", "publish"}
    /\ stage = "filled" => product_result = NoResult
    /\ ItemBuilt => Keys(item_aspects) = ProtectedAspects

\* C14 (as amended): when the completion call fails, or when no JSON object
\* can be extracted from its output, fill_category_requirements returns an
\* empty result and raises nothing, and the product goes on to the listing
\* steps; an output that merely wraps a JSON object in other text or in an
\* array is not rejected: the object is extracted and its (validated) items
\* are returned.
C14_MalformedOutput ==
    fill.called =>
        IF NoObjectFound(fill.resp)
        THEN EmptyAndContinued
        ELSE /\ ~fill.raised
             /\ fill.value = _validate_and_truncate_aspects(FilledFrom(fill.resp))
             /\ filled_aspects = fill.value

\* C14 witness: the completion was a JSON array of scalars, and the product
\* reached the offer step
C14_Witness ==
    /\ fill.called
    /\ fill.resp = TextOf(<< LBrack, Scalar, RBrack >>)
    /\ fill.value = <<>>
    /\ stage = "offer"

\* C14 (original statement): whenever the output is malformed (the call
\* failed, the text is unparseable, or it is a JSON value that is no
\* object) the result is empty, nothing is raised and the product goes on.
C14_Original ==
    (fill.called /\ Malformed(fill.resp)) => EmptyAndContinued

\* the required aspects of the category that the inventory item lacks
MissingRequired ==
    {category_requirements.required[i] : i \in 1..Len(category_requirements.required)}
        \ Keys(item_aspects)

\* C15: whenever the product goes to listing creation with a required aspect
\* of its category unfilled, the missing aspect is reported for that product.
C15_MissingRequiredReported ==
    (ItemBuilt /\ MissingRequired # {}) => "missing_required" \in log

(***************************************************************************)
(* Properties of the requirements cache and of the batch                   *)
(***************************************************************************)
\* the move of product p from one phase to another in the step
Moves(p, from, to) == phase[p] = from /\ phase'[p] = to

\* C16: a lookup of c that finds c in the cache returns the cached
\* requirements without an external call; a lookup that misses makes one
\* external call, stores what it got under c (the empty requirements when
\* the fetch failed) and returns it; after a completed lookup of c the
\* cache holds an entry for c, and entries are never removed.
C16_CachedLookup ==
    [][ /\ Keys(requirements_cache) \subseteq Keys(requirements_cache')
        /\ \A p \in BatchProducts :
              /\ Moves(p, "get", "listing") =>
                    /\ cat[p] \in Keys(requirements_cache)
                    /\ look'[p].value = ValueAt(requirements_cache, cat[p])
                    /\ look'[p].calls = 0
                    /\ fetches' = fetches
              /\ Moves(p, "get", "fetch") => cat[p] \notin Keys(requirements_cache)
              /\ Moves(p, "set", "listing") =>
                    /\ look[p].calls = 1
                    /\ cat[p] \in Keys(requirements_cache')
                    /\ ValueAt(requirements_cache', cat[p]) = look[p].value
                    /\ look'[p].value = look[p].value
              /\ look'[p].done => cat'[p] \in Keys(requirements_cache')
      ]_vars

\* C16 witness: a lookup whose fetch failed has completed and the cache
\* holds the empty requirements for its category
C16_Witness ==
    \E p \in BatchProducts :
        /\ look[p].done
        /\ ~look[p].hit
        /\ look[p].value = EmptyRequirements
        /\ cat[p] \in Keys(requirements_cache)
        /\ ValueAt(requirements_cache, cat[p]) = EmptyRequirements

\* C17 (as amended): an external fetch for an id is started only by a task
\* whose cache lookup missed, that is, was made before any store for the id
\* had completed; a lookup made after a store for the id has completed hits
\* and starts no fetch; a task that missed before the first store may still
\* start its fetch after that store (the duplicate of the first access);
\* per id there are never more fetches than threads in the pool.
C17_FetchRace ==
    [][ /\ \A p \in BatchProducts :
           /\ Moves(p, "get", "fetch") => cat[p] \notin Keys(requirements_cache)
           /\ (phase[p] = "get" /\ phase'[p] # "get"
                  /\ cat[p] \in Keys(requirements_cache)) =>
                 /\ phase'[p] = "listing"
                 /\ fetches' = fetches
        /\ \A c \in BatchCategories :
              fetches'[c] # fetches[c] =>
                 /\ \E q \in BatchProducts : Moves(q, "fetch", "set") /\ cat[q] = c
                 /\ fetches'[c] <= MaxWorkers
      ]_vars

\* C17 witness: two fetches of one id have been started, the first is
\* stored, the second is about to be stored over it
C17_Witness ==
    \E p \in BatchProducts :
        /\ phase[p] = "set"
        /\ cat[p] \in Keys(requirements_cache)
        /\ fetches[cat[p]] = 2

\* C17 (original statement): in addition, once a store for an id has
\* completed no external fetch for that id is started any more.
C17_Original ==
    [][ /\ \A p \in BatchProducts :
           /\ Moves(p, "get", "fetch") => cat[p] \notin Keys(requirements_cache)
           /\ Moves(p, "fetch", "set") => cat[p] \notin Keys(requirements_cache)
        /\ \A c \in BatchCategories :
              fetches'[c] # fetches[c] => fetches'[c] <= MaxWorkers
      ]_vars

\* a request of some product never answers
SomeHung == \E p \in BatchProducts : phase[p] = "hung"

\* the batch has returned with a failure record for every hung product
FinishedWithHungFailed ==
    /\ batch = "finished"
    /\ \A p \in BatchProducts :
          phase[p] = "hung" =>
              \E i \in 1..Len(results) : results[i].sku = p /\ results[i].status = "failed"

\* C18: a product one of whose requests hangs is marked failed after the
\* per-product timeout and the batch still finishes.
C18_HungProductTimesOut == SomeHung ~> FinishedWithHungFailed

(***************************************************************************)
(* The index initialize_from_cache builds                                  *)
(***************************************************************************)
\* the last call reached initialize_from_cache and it built an index
Built == op \in {"initialize_from_cache", "new_selector"} /\ args.built

\* the categories of a taxonomy that are leaves 2 to 4 levels deep
LeavesInBand(cats) ==
    {c \in DOMAIN cats : cats[c].leaf /\ cats[c].level >= 2 /\ cats[c].level <= 4}

\* C19: after initialize_from_cache has built the index from a taxonomy,
\* the indexed categories are exactly its leaves of level 2 to 4, each has
\* exactly one vector, and the metadata list has the length and the order
\* of the vectors, entry i describing the category whose text
\* "{name} - {path}" vector i embeds.
C19_IndexedSet ==
    Built =>
        LET cats == args.categories
            n == Len(index.vecs)
        IN  /\ index.loaded
            /\ {index.vecs[i] : i \in 1..n} = LeavesInBand(cats)
            /\ \A i, j \in 1..n : index.vecs[i] = index.vecs[j] => i = j
            /\ Len(category_metadata) = n
            /\ Len(args.texts) = n
            /\ \A i \in 1..n :
                  /\ category_metadata[i].id = index.vecs[i]
                  /\ category_metadata[i].name = cats[index.vecs[i]].name
                  /\ category_metadata[i].path = get_category_path(cats, index.vecs[i])
                  /\ args.texts[i] =
                        <<category_metadata[i].name, " - ", category_metadata[i].path>>

\* an index built from the current tree, which has a category that is not a
\* leaf, a leaf above level 2 and a leaf below level 4, all three left out
C19_Witness ==
    /\ Built
    /\ args.categories = Taxonomy
    /\ Len(index.vecs) >= 2
    /\ \E c \in DOMAIN Taxonomy : ~Taxonomy[c].leaf /\ Taxonomy[c].level = 3
    /\ \E c \in DOMAIN Taxonomy : Taxonomy[c].leaf /\ Taxonomy[c].level = 1
    /\ \E c \in DOMAIN Taxonomy : Taxonomy[c].leaf /\ Taxonomy[c].level = 5
    /\ \E i \in 1..Len(category_metadata) : Len(category_metadata[i].path) >= 2

(***************************************************************************)
(* The age of the cached taxonomy                                          *)
(***************************************************************************)
\* the cache file is older than the maximum age
Stale(file) == file.exists /\ file.age > MaxAgeDays

\* the last call built the index from the categories of a cache file older
\* than the maximum age although the refresh had failed
IndexFromStale ==
    /\ Built
    /\ Stale(args.cache_file)
    /\ ~args.refreshed

\* the last call made an LLMCategorySelector that validates categories
\* against a cache file older than the maximum age although the refresh
\* had failed
ValidationFromStale ==
    /\ op = "new_selector"
    /\ args.llm.made
    /\ Stale(args.llm.file)
    /\ ~args.llm.refreshed
    /\ args.llm.categories = args.llm.file.categories
    /\ llm_selector

\* C20: a cached taxonomy older than the maximum age is never used to build
\* the index or to validate categories unless a refresh succeeded first;
\* after a failed refresh initialization does not go on with it.
C20_StaleNeverUsed == ~IndexFromStale /\ ~ValidationFromStale

(***************************************************************************)
(* The embedding model of the index                                        *)
(***************************************************************************)
\* a database object holds vectors that another model made than the one it
\* embeds queries with
LoadedOtherModel ==
    /\ db = "alive"
    /\ index.loaded
    /\ Len(index.vecs) > 0
    /\ index.model # Model

\* the last search ranked categories by comparing a query vector of Model
\* with vectors that another model made
ComparedAcrossModels ==
    /\ op = "search_category"
    /\ ret.status = "returned"
    /\ Len(ret.matches) > 0
    /\ index.model # Model

\* C21: an index built with another embedding model than the one used for
\* queries is not loaded (initialization aborts), and no query vector is
\* compared with vectors of another model.
C21_SameModelVersion == ~LoadedOtherModel /\ ~ComparedAcrossModels

(***************************************************************************)
(* Construction of the selector                                            *)
(***************************************************************************)
\* the last call was SemanticCategorySelector() and it returned / raised
Constructed == op = "new_selector" /\ ret.status = "returned"
Aborted == op = "new_selector" /\ ret.status = "raised"

\* C22: SemanticCategorySelector() either returns with a loaded, non-empty
\* index and as many metadata entries, or raises; it raises when nothing
\* usable was loaded and the taxonomy it could get has no category to index.
C22_NeverEmptyIndex ==
    /\ op = "new_selector" => Constructed \/ Aborted
    /\ Constructed =>
          /\ selector = "ready"
          /\ index.loaded
          /\ Len(index.vecs) > 0
          /\ Len(category_metadata) = Len(index.vecs)
    /\ Aborted =>
          /\ selector = "aborted"
          /\ ~args.built
          /\ EligibleIds(args.categories) = <<>>

\* construction aborted: the index file was unreadable, there was no cached
\* taxonomy and its download failed
C22_Witness ==
    /\ Aborted
    /\ index_file = CorruptFile
    /\ ~args.cache_file.exists
    /\ ~args.download_ok

(***************************************************************************)
(* Rebuilding                                                              *)
(***************************************************************************)
\* this step is a call of initialize_from_cache without force_rebuild on a
\* database whose index is loaded and whose metadata is not empty
PlainInitializeOnInitialized ==
    /\ op = "none"
    /\ op' = "initialize_from_cache"
    /\ ~args'.force_rebuild
    /\ index.loaded
    /\ Len(category_metadata) > 0

\* this step is SemanticCategorySelector() finding readable index files
\* with a non-empty metadata list
ConstructOnLoadable ==
    /\ op = "none"
    /\ op' = "new_selector"
    /\ _load_index.index.loaded
    /\ Len(_load_index.category_metadata) > 0

\* C23: initialize_from_cache without force_rebuild on an initialized
\* database returns leaving index, metadata and the files on disk as they
\* were, and the selector's constructor keeps a loaded non-empty index
\* without rebuilding it or rewriting its files.
C23_RebuildOnlyOnRequest ==
    [][ /\ PlainInitializeOnInitialized =>
              /\ ret'.status = "returned"
              /\ ~args'.built
              /\ UNCHANGED <<index, category_metadata, index_file, metadata_file,
                             cache_file>>
        /\ ConstructOnLoadable =>
              /\ ~args'.built
              /\ index' = _load_index.index
              /\ category_metadata' = _load_index.category_metadata
              /\ UNCHANGED <<index_file, metadata_file>>
      ]_vars

\* initialize_from_cache() has returned early on an initialized database
C23_Witness ==
    /\ op = "initialize_from_cache"
    /\ ~args.force_rebuild
    /\ ~args.built
    /\ ret.status = "returned"
    /\ index.loaded
    /\ Len(category_metadata) > 0
    /\ index_file.exists

(***************************************************************************)
(* Retrieval                                                               *)
(***************************************************************************)
\* the query text search_category embeds for the arguments a
QueryOf(a) ==
    IF a.description # <<>>
    THEN a.title \o <<" ">> \o PyTake(a.description, DescQueryMax)
    ELSE a.title

\* matches lists k of the indexed categories (all of them when there are
\* fewer), each once with the similarity of its vector to the query, best
\* first, and no category left out is more similar than one listed
BestFirst(matches, vecs, meta, query, k) ==
    LET n == Len(vecs)
        listed == {matches[i].category_id : i \in 1..Len(matches)}
    IN  /\ Len(matches) = IF k < n THEN k ELSE n
        /\ \A i \in 1..Len(matches) :
              /\ \E j \in 1..n :
                    /\ vecs[j] = matches[i].category_id
                    /\ meta[j].name = matches[i].name
              /\ matches[i].similarity_score = Similarity(query, matches[i].category_id)
        /\ \A i, j \in 1..Len(matches) :
              /\ i < j => matches[i].similarity_score >= matches[j].similarity_score
              /\ matches[i].category_id = matches[j].category_id => i = j
        /\ \A j \in 1..n :
              vecs[j] \notin listed =>
                  \A i \in 1..Len(matches) :
                      matches[i].similarity_score >= Similarity(query, vecs[j])

Rerun ==
    optimize_title_and_select_category(index', category_metadata', llm_selector',
                                       args').ret

PastOptimization == stage \in {"optimized", "requirements", "filled", "inventory", "offer"}

\* the brand of the result step 1 received is None
BrandUnset == optimized.brand = JsonNull

\* C26: process_single_product goes on to the requirements, the aspects
\* and the listing requests only with a result whose fields are all set;
\* otherwise it ends with a failure record naming the stage.
C26_CompleteResultOrFailure ==
    /\ PastOptimization => ~BrandUnset
    /\ ItemBuilt => ValueAt(item_aspects, "Brand") # List(<<Str(JsonNull)>>)
    /\ (stage = "done" /\ product_result.status = "failed") =>
          product_result.stage \in {"llm_optimization", "inventory", "offer", "publish"}

(***************************************************************************)
(* The rate-limit tracker                                                  *)
(***************************************************************************)
InThrottle(t) == pc[t] \in {"t_remaining", "t_limit", "t_reset", "t_release"}
InUpdate(t) == pc[t] \in {"u_remaining", "u_limit", "u_reset", "u_release"}

\* C27: while a thread is inside should_throttle no field changes, and what
\* it decides is what the three fields as they were when it took the lock
\* give; an update is applied as a whole to the fields as they were when it
\* took the lock, so the fields are always those that the updates, one
\* complete update after the other, produce.
C27_AtomicTracker ==
    \A t \in Workers :
        /\ InThrottle(t) => lock = t /\ Tracker = loc[t].before
        /\ pc[t] = "t_release" =>
              loc[t].decision = should_throttle(loc[t].before, loc[t].now)
        /\ InUpdate(t) => lock = t
        /\ pc[t] = "u_release" =>
              Tracker = update_from_headers(loc[t].before, loc[t].headers)
        /\ \A u \in Workers : (InThrottle(t) \/ InUpdate(t)) /\ (InThrottle(u) \/ InUpdate(u)) => t = u

\* a thread has decided to throttle while another thread waits for the lock
\* with headers that would change the decision
C27_Witness ==
    \E t, u \in Workers :
        /\ pc[t] = "t_release"
        /\ loc[t].decision.throttle
        /\ pc[u] = "u_lock"
        /\ ~should_throttle(update_from_headers(Tracker, loc[u].headers), loc[t].now).throttle

(***************************************************************************)
(* The brand of the fallback paths                                         *)
(***************************************************************************)
\* the value of the first brand field that is a text of more than 2
\* characters, <<>> when there is none
FirstQualifying(specifications) ==
    LET m == specifications.map
        K == {i \in 1..Len(BrandKeys) :
                 /\ specifications.present
                 /\ BrandKeys[i] \in DOMAIN m
                 /\ m[BrandKeys[i]] # NonString
                 /\ Len(m[BrandKeys[i]]) > 2}
    IN  IF K = {} THEN <<>> ELSE m[BrandKeys[SetMin(K)]]

\* the brand the statement gives for a title and specifications
StatedBrand(title, specifications) ==
    LET field == FirstQualifying(specifications)
        first_word == IF PyStrip(title) = <<>> THEN <<>> ELSE PyFirstWord(title)
    IN  IF field # <<>> THEN field
        ELSE IF Len(first_word) > 2 /\ PyIsUpper(first_word[1]) THEN first_word
        ELSE Generic

\* the last call took its brand from _extract_brand_simple alone
SimpleBrandCall == Optimized /\ ~(args.use_llm_for_title /\ llm_selector)

\* C28: _extract_brand_simple returns the first qualifying brand field,
\* else the title's first word when it is longer than 2 characters and
\* starts in upper case, and "Generic" in every other case.
C28_ExtractBrandSimple ==
    SimpleBrandCall =>
        /\ ret.status = "returned"
        /\ ret.brand = StatedBrand(args.title, args.specifications)

(***************************************************************************)
(* The results of process_products                                         *)
(***************************************************************************)
\* the records of product p in a results list
RecordsOf(rs, p) == {i \in 1..Len(rs) : rs[i].sku = p}

\* C29: every finished task adds one record for its product to the end of
\* results and leaves the records already there alone; the record of a
\* task that raised is 'failed' at stage 'exception', any other record is
\* what the task returned; no product ever has two records, and when
\* process_products returns every submitted product has exactly one.
C29_OneRecordPerProduct ==
    [][ /\ \A p \in BatchProducts :
              Moves(p, "returned", "collected") =>
                  /\ Len(results') = Len(results) + 1
                  /\ SubSeq(results', 1, Len(results)) = results
                  /\ results'[Len(results')].sku = p
                  /\ returned[p].status = "raised" =>
                        /\ results'[Len(results')].status = "failed"
                        /\ results'[Len(results')].stage = "exception"
                  /\ returned[p].status # "raised" =>
                        /\ results'[Len(results')].status = returned[p].status
                        /\ results'[Len(results')].stage = returned[p].stage
        /\ (\A p \in BatchProducts : ~Moves(p, "returned", "collected")) =>
              results' = results
        /\ \A p \in BatchProducts : Cardinality(RecordsOf(results', p)) <= 1
        /\ batch' = "finished" =>
              /\ Len(results') = MaxProducts
              /\ \A p \in BatchProducts : Cardinality(RecordsOf(results', p)) = 1
      ]_vars

\* process_products has returned; the last product submitted finished
\* first, by an exception, and a product collected after it succeeded
C29_Witness ==
    /\ batch = "finished"
    /\ results[1].sku = MaxProducts
    /\ results[1].stage = "exception"
    /\ \E i \in 2..Len(results) : results[i].status = "success"

(***************************************************************************)
(* The listing requests of a product                                       *)
(***************************************************************************)
\* the stage name a failed request is reported under
StageOf(request) ==
    CASE request = "inventory_item" -> "inventory"
      [] request \in {"offer_create", "offer_update"} -> "offer"
      [] OTHER -> request

\* C30: the requests of a product are issued in the order inventory item,
\* offer lookup, offer update or creation, publication; each is issued only
\* after the inventory-item request and, for the publication, the offer
\* request were answered with success; a request answered with a failure
\* is the last one of the product and its record is 'failed' at the stage
\* of that request.
C30_ListingRequestOrder ==
    /\ Len(sent) <= 4
    /\ Len(sent) >= 1 => sent[1].request = "inventory_item"
    /\ Len(sent) >= 2 =>
          /\ sent[2].request = "offer_lookup"
          /\ sent[1].outcome = "success"
    /\ Len(sent) >= 3 =>
          sent[3].request =
              IF sent[2].outcome = "found" THEN "offer_update" ELSE "offer_create"
    /\ Len(sent) >= 4 =>
          /\ sent[4].request = "publish"
          /\ sent[1].outcome = "success"
          /\ sent[3].outcome = "success"
    /\ \A i \in 1..Len(sent) :
          sent[i].outcome = "failure" =>
              /\ i = Len(sent)
              /\ stage = "done"
              /\ product_result = Failed(StageOf(sent[i].request))

\* the creation of the offer was refused after the inventory item had been
\* accepted and no offer had been found
C30_Witness ==
    /\ Len(sent) = 3
    /\ sent[1] = Sent("inventory_item", "success")
    /\ sent[2] = Sent("offer_lookup", "none")
    /\ sent[3] = Sent("offer_create", "failure")
    /\ product_result = Failed("offer")

====
